---- MODULE Spec2Model ----
(***************************************************************************)
(* Model of the grouping, caching and metric-aggregation engine of         *)
(* tcml_tools: slurmer/parse/metrics.py (Result, Metrics),                 *)
(* slurmer/parse/group.py (Group, GroupSeparator) and                      *)
(* tcml_tools/slurmer/parse/groupmanager.py (GroupManager), with the       *)
(* TbParser log reader of tcml_tools/slurmer/parse/parser.py.              *)
(*                                                                         *)
(* Conventions.                                                            *)
(*  - A Python dict is a TLA+ function whose DOMAIN is the dict's key set; *)
(*    a.update(b) is  b @@ a.                                              *)
(*  - An optional value (None or x) is the sequence <<>> or <<x>>.         *)
(*  - Series values are integers; numpy's float results are kept exact as  *)
(*    fractions num/den (den > 0).  A result name "%s avg" % name is the   *)
(*    pair <<name, "avg">>.                                                *)
(*  - A (wall_time, step, value) sample at position i is <<i, i, value>>.  *)
(***************************************************************************)
EXTENDS Integers, Sequences, FiniteSets, TLC

\* ------------------------------------------------------------------ bounds
MaxJob == 2       \* jobs of the evaluated group
MaxLen == 2       \* samples of a logged series
MaxK == 2         \* first_k / last_k of a metric
MaxCalls == 2     \* calls of update_results, merge, update_groups in a run
MaxGroups == 3    \* entries of a filtered manager
MaxManaged == 2   \* entries of an updated manager
MaxClustered == 2 \* entries of a manager merged by a parameter
MaxRows == 3      \* entries of a tabulated manager
MaxFiles == 2     \* log files of one job
MaxPolls == 3     \* polls of a callback thread

JobIds == 1..MaxJob
Vals == {0, 1}
Ks == 1..MaxK

\* metric keys: "acc" is logged by jobs, "loss" is asked for but never logged
DataKeys == {"acc"}
MetricKeys == {"acc", "loss"}
NA == "N/A"

None == <<>>
Some(x) == <<x>>
IsNone(o) == o = <<>>
Val(o) == o[1]

\* ----------------------------------------------------------- small helpers
RECURSIVE SumSeq(_)
SumSeq(s) == IF s = <<>> THEN 0 ELSE Head(s) + SumSeq(Tail(s))

RECURSIVE MaxSeq(_)
MaxSeq(s) == IF Len(s) = 1 THEN s[1]
             ELSE LET r == MaxSeq(Tail(s)) IN IF s[1] > r THEN s[1] ELSE r

RECURSIVE MinSeq(_)
MinSeq(s) == IF Len(s) = 1 THEN s[1]
             ELSE LET r == MinSeq(Tail(s)) IN IF s[1] < r THEN s[1] ELSE r

RECURSIVE Flatten(_)
Flatten(rows) == IF rows = <<>> THEN <<>> ELSE Head(rows) \o Flatten(Tail(rows))

\* the elements of a finite set of integers as an increasing sequence
RECURSIVE SortedSeq(_)
SortedSeq(S) == IF S = {} THEN <<>>
                ELSE LET m == CHOOSE x \in S : \A y \in S : x <= y
                     IN <<m>> \o SortedSeq(S \ {m})

\* the elements of a finite set as a sequence, in some fixed order
RECURSIVE SeqOfSet(_)
SeqOfSet(S) == IF S = {} THEN <<>>
                       ELSE LET m == CHOOSE x \in S : TRUE
                            IN <<m>> \o SeqOfSet(S \ {m})

\* all sequences over S of length lo..hi
SeqsOf(S, lo, hi) == UNION {[1..n -> S] : n \in lo..hi}

\* all dicts with keys among K and values in V
DictsOf(K, V) == UNION {[D -> V] : D \in SUBSET K}

\* Python slicing s[:k] and s[-k:] for k >= 0 (s[-0:] is the whole list)
SliceFirst(s, k) == SubSeq(s, 1, IF k < Len(s) THEN k ELSE Len(s))
SliceLast(s, k) == IF k = 0 \/ k >= Len(s) THEN s ELSE SubSeq(s, Len(s) - k + 1, Len(s))

\* ------------------------------------------------------------------ Result
\* Result(name, value): value is a str (kind "str") or a number num/den
\* (kind "num"); NoneResult stands for Python's None where a Result is expected
NoneResult == [kind |-> "none", name |-> <<>>, s |-> "", num |-> 0, den |-> 1]
StrResult(n, v) == [kind |-> "str", name |-> n, s |-> v, num |-> 0, den |-> 1]
NumResult(n, a, b) == [kind |-> "num", name |-> n, s |-> "", num |-> a, den |-> b]

\* Result.__lt__
Result_lt(self, other) ==
    IF other.kind = "none" THEN FALSE
    ELSE IF self.kind = "str" THEN TRUE
    ELSE IF other.kind = "str" THEN FALSE
    ELSE self.num * other.den < other.num * self.den

\* Result.__eq__
Result_eq(self, other) ==
    IF other.kind = "none" THEN FALSE
    ELSE IF self.kind = "str" /\ other.kind = "str" THEN TRUE
    ELSE self.kind = other.kind /\ self.num * other.den = other.num * self.den

\* max([new, old]) of group.py:60.  CPython's max keeps the first item and
\* replaces it by a later item x when  x > kept ; Result defines no __gt__, so
\* old > new is answered by the reflected new.__lt__(old)  (also for old = None)
MaxAlwaysNew(new, old) == new
PyMax2(new, old) == IF Result_lt(new, old) THEN old ELSE new

\* ----------------------------------------------------------------- Metrics
\* Metrics(key, name, not_available_value, first_k, last_k, avg, ..., min);
\* aggs is the set of enabled aggregates.  Metrics.__init__ asserts that not
\* both first_k and last_k are given.  (med and std are not modelled.)
Aggregates == <<"avg", "max_avg", "min_avg", "max", "min">>

Metric(key, name, nav, first_k, last_k, aggs) ==
    [key |-> key, name |-> name, not_available_value |-> nav,
     first_k |-> first_k, last_k |-> last_k, aggs |-> aggs]

RowMaxs(v) == [i \in 1..Len(v) |-> MaxSeq(v[i])]
RowMins(v) == [i \in 1..Len(v) |-> MinSeq(v[i])]

\* one aggregate of the 2-D array v (rows = jobs), as a fraction
Aggregate(a, v) ==
    CASE a = "avg"     -> <<SumSeq(Flatten(v)), Len(Flatten(v))>>
      [] a = "max_avg" -> <<SumSeq(RowMaxs(v)), Len(v)>>
      [] a = "min_avg" -> <<SumSeq(RowMins(v)), Len(v)>>
      [] a = "max"     -> <<MaxSeq(Flatten(v)), 1>>
      [] a = "min"     -> <<MinSeq(Flatten(v)), 1>>

\* the truncation of metrics.py:93-94: the first_k slice is guarded by
\* "self.last_k is not None" (values[:, :None] is the whole array)
Truncate(m, values) ==
    LET v1 == IF ~IsNone(m.last_k)
              THEN (IF IsNone(m.first_k) THEN values
                    ELSE [i \in 1..Len(values) |-> SliceFirst(values[i], Val(m.first_k))])
              ELSE values
    IN IF ~IsNone(m.last_k)
       THEN [i \in 1..Len(v1) |-> SliceLast(v1[i], Val(m.last_k))]
       ELSE v1

\* Metrics.from_values(values): values is None or Some(2-D array).
\* Returns [err, results]: err is "" or the exception type raised.
Metrics_from_values(m, values) ==
    IF IsNone(values) /\ IsNone(m.not_available_value)
    THEN [err |-> "AssertionError", results |-> <<>>]
    ELSE LET enabled == SelectSeq(Aggregates, LAMBDA a : a \in m.aggs)
             one(a) == IF IsNone(values)
                       THEN StrResult(<<m.name, a>>, Val(m.not_available_value))
                       ELSE LET q == Aggregate(a, Truncate(m, Val(values)))
                            IN NumResult(<<m.name, a>>, q[1], q[2])
         IN [err |-> "", results |-> [i \in 1..Len(enabled) |-> one(enabled[i])]]

\* ------------------------------------------------------------------- Group
\* Group(name, ids, **kwargs); GroupSeparator() is a Group with sep = TRUE,
\* no ids and no params
Group(name, ids, params) ==
    [sep |-> FALSE, name |-> name, ids |-> ids, params |-> params,
     data |-> <<>>, results |-> <<>>]
\* (self._id += 1 reads the class attribute -1 and sets an instance attribute,
\* so every separator is named "separator 0")
GroupSeparator ==
    [sep |-> TRUE, name |-> "separator 0", ids |-> <<>>, params |-> <<>>,
     data |-> <<>>, results |-> <<>>]

\* the value column of a stored series: v[2] of every (time, step, value)
SeriesValues(series) == [i \in 1..Len(series) |-> series[i][3]]
\* a stored series from its values
SeriesOf(vals) == [i \in 1..Len(vals) |-> <<i, i, vals[i]>>]

\* Group._values(key, last_k): the rows of the jobs in self.data that have the
\* key (cut to their last last_k values when last_k is an int > 0), and the
\* jobs of self.data that lack it.  Returns [err, values, missing]; the
\* assertion on the rows' lengths comes after the cut.
ValueRows(g, key, last_k) ==
    LET present == SelectSeq(SortedSeq(DOMAIN g.data), LAMBDA id : key \in DOMAIN g.data[id])
        row(id) == LET v == SeriesValues(g.data[id][key])
                   IN IF ~IsNone(last_k) /\ Val(last_k) > 0
                      THEN SliceLast(v, Val(last_k)) ELSE v
    IN [i \in 1..Len(present) |-> row(present[i])]
MissingIds(g, key) ==
    SelectSeq(SortedSeq(DOMAIN g.data), LAMBDA id : key \notin DOMAIN g.data[id])
Group_valuesNoLengthCheck(g, key, last_k) ==
    LET values == ValueRows(g, key, last_k)
    IN [err |-> "", missing |-> MissingIds(g, key),
        values |-> IF Len(values) > 0 THEN Some(values) ELSE None]
Group_values(g, key, last_k) ==
    LET values == ValueRows(g, key, last_k)
    IN IF \E i \in 1..Len(values) : Len(values[i]) # Len(values[1])
       THEN [err |-> "AssertionError", values |-> None, missing |-> MissingIds(g, key)]
       ELSE [err |-> "", missing |-> MissingIds(g, key),
             values |-> IF Len(values) > 0 THEN Some(values) ELSE None]

\* an exception: its type and the job ids its message names
NoExc == [type |-> "", ids |-> <<>>]
Exc(type, ids) == [type |-> type, ids |-> ids]

\* self.results.get(name)
ResultGet(results, name) == IF name \in DOMAIN results THEN results[name] ELSE NoneResult

\* Group.all_result_keys[name] = True on an OrderedDict
Register(keys, k) == IF \E i \in 1..Len(keys) : keys[i] = k THEN keys ELSE Append(keys, k)

\* the inner loop of Group.update_results over the results of one metric
RECURSIVE StoreResults(_, _, _)
StoreResults(rs, results, ark) ==
    IF rs = <<>> THEN [results |-> results, ark |-> ark]
    ELSE LET r == Head(rs)
             kept == PyMax2(r, ResultGet(results, r.name))
         IN StoreResults(Tail(rs), (r.name :> kept) @@ results, Register(ark, r.name))

\* what Group._values(key, last_k) and Metrics.from_values leave in self.data:
\* every row is a new array built from the stored samples (np.array([...])),
\* the cuts v[-last_k:], values[:, :first_k] are slices of that array and
\* nan_to_num copies, so the stored lists are the ones that were there
DataCutInPlace(g, key, last_k) ==
    [id \in DOMAIN g.data |->
        [k \in DOMAIN g.data[id] |->
            IF k = key /\ ~IsNone(last_k) /\ Val(last_k) > 0
            THEN SliceLast(g.data[id][k], Val(last_k)) ELSE g.data[id][k]]]
DataAfterValues(g, key, last_k) == g.data

\* Group.update_results(metrics) on group g with registry ark.
\* Returns [results, ark, exc, data]; a raised exception ends the loop and
\* leaves what the earlier metrics stored.
RECURSIVE Group_update_results(_, _, _)
Group_update_results(g, metrics, ark) ==
    IF g.sep \/ metrics = <<>>
    THEN [results |-> g.results, ark |-> ark, exc |-> NoExc, data |-> g.data]
    ELSE LET m == Head(metrics)
             vm == Group_values(g, m.key, m.last_k)
             fv == Metrics_from_values(m, vm.values)
             left == DataAfterValues(g, m.key, m.last_k)
         IN IF vm.err # ""
            THEN [results |-> g.results, ark |-> ark, exc |-> Exc(vm.err, <<>>),
                  data |-> left]
            ELSE IF fv.err = "KeyError"
                 THEN [results |-> g.results, ark |-> ark, exc |-> Exc("KeyError", vm.missing),
                       data |-> left]
            ELSE IF fv.err # ""
                 THEN [results |-> g.results, ark |-> ark, exc |-> Exc(fv.err, <<>>),
                       data |-> left]
            ELSE LET st == StoreResults(fv.results, g.results, ark)
                 IN Group_update_results([g EXCEPT !.results = st.results, !.data = left],
                                         Tail(metrics), st.ark)

\* Group.update_data(id_, data): self.data[id_].update(data) on a defaultdict
Group_update_data(g, id, d) ==
    [g EXCEPT !.data = (id :> (d @@ (IF id \in DOMAIN g.data THEN g.data[id] ELSE <<>>)))
                       @@ g.data]

\* Group.update_all_data(data)
RECURSIVE UpdateAllFrom(_, _, _)
UpdateAllFrom(g, ids, data) ==
    IF ids = <<>> THEN g
    ELSE UpdateAllFrom(IF Head(ids) \in DOMAIN data
                       THEN Group_update_data(g, Head(ids), data[Head(ids)])
                       ELSE g,
                       Tail(ids), data)
Group_update_all_dataDropsResults(g, data) ==
    [UpdateAllFrom(g, g.ids, data) EXCEPT !.results = <<>>]
Group_update_all_data(g, data) == UpdateAllFrom(g, g.ids, data)

\* Group.merge(other)
Group_mergeSelfWins(self, other) ==
    [self EXCEPT !.ids = self.ids \o other.ids,
                 !.params = self.params @@ other.params,
                 !.data = self.data @@ other.data,
                 !.results = self.results @@ other.results]
Group_merge(self, other) ==
    [self EXCEPT !.ids = self.ids \o other.ids,
                 !.params = other.params @@ self.params,
                 !.data = other.data @@ self.data,
                 !.results = other.results @@ self.results]

\* =================================================================== state
VARIABLES
    groups,           \* GroupManager.groups: the list of Groups and separators
    events,           \* GroupManager.stored_data['events']: job id -> key -> series
    all_param_keys,   \* Group.all_param_keys (insertion ordered)
    all_result_keys,  \* Group.all_result_keys (insertion ordered)
    last,             \* the last operation: its name, arguments, what it raised
    calls,            \* number of operations performed (bounds the runs)
    storage,          \* GroupManager.storage_path, the kind of stored_data, the file
    pool,             \* TbParser.parse_ids: the tasks of pool.map and its units of work
    callback          \* a ReachedJobStateCallback thread and the job it watches

vars == <<groups, events, all_param_keys, all_result_keys, last, calls, storage,
          pool, callback>>

NoLast == [op |-> "init", i |-> 0, j |-> 0, exc |-> NoExc, metrics |-> <<>>, pre |-> <<>>,
           arg |-> <<>>, parsed |-> <<>>, returned |-> None, prev |-> <<>>]

\* the storage of a manager: path is "storage_path is a str"; kind tells what
\* stored_data is: a dict, an open shelf or a closed shelf; file is what the
\* shelve file holds under 'events'; exclusive tells whether the dbm module
\* behind shelve takes an exclusive lock on the file it opens (dbm.gnu does,
\* dbm.dumb does not); second tells whether another manager holds the file
\* open.  NoStorage is GroupManager() with storage_path=None.
NoStorage == [path |-> FALSE, kind |-> "dict", file |-> <<>>, exclusive |-> FALSE,
              second |-> FALSE]

\* an object handed to a caller: alias = 0 for a new object of its own,
\* alias = i when it is the very object the program holds at place i
SameObject(i, g) == [alias |-> i, obj |-> g]
Deepcopy(i, g) == [alias |-> 0, obj |-> g]

\* no parse_ids call under way: no tasks, no units of work, nothing returned
NoPool == [state |-> "idle", ids |-> <<>>, tasks |-> <<>>, units |-> <<>>,
           exc |-> NoExc, returned |-> None]

\* no callback thread started: pc is the thread's place in
\* AbstractCallback.run, job the state sacct reports for the watched job,
\* seen the states _run_fun has observed, on_target / on_other the calls of
\* the two handlers (on_other with the state it was given)
NoCallback == [pc |-> "new", target |-> "", job |-> "", keep_running |-> TRUE,
               seen |-> <<>>, on_target |-> 0, on_other |-> <<>>]

\* the series a job can have logged under a key
StoredSeries == {SeriesOf(v) : v \in SeqsOf(Vals, 1, MaxLen)}
\* the scalar logs of one job: a dict key -> series ({} when nothing was read)
JobLogs == DictsOf(DataKeys, StoredSeries)

\* the metrics the runs evaluate
MetricSet ==
    {Metric(key, "acc", nav, tr[1], tr[2], {a}) :
        key \in MetricKeys, nav \in {None, Some(NA)}, a \in {"avg", "max", "min"},
        tr \in {<<None, None>>} \cup {<<Some(k), None>> : k \in Ks}
                                \cup {<<None, Some(k)>> : k \in Ks}}

\* ------------------------------------------------ Group.update_data (call)
UpdateData(i, id, d) ==
    /\ ~groups[i].sep
    /\ \E k \in 1..Len(groups[i].ids) : groups[i].ids[k] = id
    /\ groups' = [groups EXCEPT ![i] = Group_update_data(@, id, d)]
    /\ last' = [NoLast EXCEPT !.op = "update_data", !.i = i]
    /\ UNCHANGED <<events, all_param_keys, all_result_keys, calls, storage, pool, callback>>

\* --------------------------------------------- Group.update_results (call)
UpdateResults(i, metrics) ==
    /\ calls < MaxCalls
    /\ LET r == Group_update_results(groups[i], metrics, all_result_keys)
       IN /\ groups' = [groups EXCEPT ![i].results = r.results, ![i].data = r.data]
          /\ all_result_keys' = r.ark
          /\ last' = [NoLast EXCEPT !.op = "update_results", !.i = i, !.exc = r.exc,
                                    !.metrics = metrics, !.pre = groups]
    /\ calls' = calls + 1
    /\ UNCHANGED <<events, all_param_keys, storage, pool, callback>>

\* ------------------------- one group, loaded with data and evaluated once
InitEvaluate ==
    /\ \E n \in JobIds : groups = <<Group("g", SortedSeq(1..n), <<>>)>>
    /\ events = <<>>
    /\ all_param_keys = <<>>
    /\ all_result_keys = <<>>
    /\ last = NoLast
    /\ calls = 0
    /\ storage = NoStorage
    /\ pool = NoPool
    /\ callback = NoCallback

NextEvaluate ==
    \/ \E id \in JobIds, d \in JobLogs : calls = 0 /\ UpdateData(1, id, d)
    \/ \E m \in MetricSet : calls = 0 /\ UpdateResults(1, <<m>>)

SpecEvaluate == InitEvaluate /\ [][NextEvaluate]_vars

\* --------------- one group, evaluated again and again while its data change
ShortLogs == {<<>>} \cup {[acc |-> SeriesOf(v)] : v \in {<<0>>, <<1>>, <<0, 1>>}}
LastOne == Some(1)
FewMetrics ==
    {Metric(key, "acc", nav, None, last_k, {a}) :
        key \in MetricKeys, nav \in {None, Some(NA)}, a \in {"avg", "max"},
        last_k \in {None, LastOne}}

InitResults ==
    /\ groups = <<Group("g", <<1, 2>>, <<>>)>>
    /\ events = <<>>
    /\ all_param_keys = <<>>
    /\ all_result_keys = <<>>
    /\ last = NoLast
    /\ calls = 0
    /\ storage = NoStorage
    /\ pool = NoPool
    /\ callback = NoCallback

NextResults ==
    \/ \E id \in {1, 2}, d \in ShortLogs : calls < MaxCalls /\ UpdateData(1, id, d)
    \/ \E m \in FewMetrics : UpdateResults(1, <<m>>)

SpecResults == InitResults /\ [][NextResults]_vars

\* ------------------------------------------------------ Group.merge (call)
Merge(i, j) ==
    /\ calls < MaxCalls
    /\ i # j
    /\ groups' = [groups EXCEPT ![i] = Group_merge(groups[i], groups[j])]
    /\ last' = [NoLast EXCEPT !.op = "merge", !.i = i, !.j = j, !.pre = groups]
    /\ calls' = calls + 1
    /\ UNCHANGED <<events, all_param_keys, all_result_keys, storage, pool, callback>>

\* parameter keys and values of the groups
ParamKeys == <<"model", "mu">>
ParamVals == {"a", "b"}
ParamDicts == DictsOf({ParamKeys[k] : k \in 1..Len(ParamKeys)}, ParamVals)

\* Group.__init__ registering its kwargs in Group.all_param_keys
RECURSIVE RegisterAll(_, _)
RegisterAll(keys, new) ==
    IF new = <<>> THEN keys ELSE RegisterAll(Register(keys, Head(new)), Tail(new))
KwargKeys(params) == SelectSeq(ParamKeys, LAMBDA k : k \in DOMAIN params)

\* a group as the program builds it: Group(name, ids, **params), then
\* update_data for its first job (logs = None: no data yet), then
\* update_results(metrics)
BuiltGroup(name, ids, params, logs, metrics) ==
    LET g0 == Group(name, ids, params)
        g1 == IF IsNone(logs) THEN g0 ELSE Group_update_data(g0, ids[1], Val(logs))
    IN [g1 EXCEPT !.results = Group_update_results(g1, metrics, <<>>).results]

MaxOfAcc == Metric("acc", "acc", Some(NA), None, None, {"max"})
SmallLogs == {<<>>} \cup {[acc |-> SeriesOf(<<v>>)] : v \in Vals}
BuiltGroups(name) ==
    {BuiltGroup(name, ids, params, logs, metrics) :
        ids \in {<<1>>, <<2, 1>>}, params \in ParamDicts,
        logs \in {None} \cup {Some(d) : d \in SmallLogs},
        metrics \in {<<>>, <<MaxOfAcc>>}}

\* ------------------------------------------------- two groups being merged
InitMerge ==
    /\ \E b \in BuiltGroups("B"), a \in BuiltGroups("A") :
          /\ groups = <<b, a>>
          /\ all_param_keys = RegisterAll(KwargKeys(b.params), KwargKeys(a.params))
          /\ all_result_keys = RegisterAll(SeqOfSet(DOMAIN b.results),
                                           SeqOfSet(DOMAIN a.results))
    /\ events = <<>>
    /\ last = NoLast
    /\ calls = 0
    /\ storage = NoStorage
    /\ pool = NoPool
    /\ callback = NoCallback

NextMerge == \E i, j \in 1..2 : Merge(i, j)

SpecMerge == InitMerge /\ [][NextMerge]_vars

\* ------------------------------------------------- GroupManager.add_group
AddGroup(name, ids, params) ==
    /\ groups' = Append(groups, Group(name, ids, params))
    /\ all_param_keys' = RegisterAll(all_param_keys, KwargKeys(params))
    /\ last' = [NoLast EXCEPT !.op = "add_group"]
    /\ UNCHANGED <<events, all_result_keys, calls, storage, pool, callback>>

\* --------------------------------------------- GroupManager.add_separator
AddSeparator ==
    /\ groups' = Append(groups, GroupSeparator)
    /\ last' = [NoLast EXCEPT !.op = "add_separator"]
    /\ UNCHANGED <<events, all_param_keys, all_result_keys, calls, storage, pool, callback>>

\* --------------------------------------------- GroupManager.filter_groups
\* Python's None, as g.params.get(key, None) returns it and as a caller may
\* list it among the allowed values
PyNone == "None"
ParamGet(params, key) == IF key \in DOMAIN params THEN params[key] ELSE PyNone

GroupManager_filter_groups(gs, filters, keep_separators) ==
    LET add(g) == \A key \in DOMAIN filters : ParamGet(g.params, key) \in filters[key]
    IN SelectSeq(gs, LAMBDA g : add(g) \/ (keep_separators /\ g.sep))

FilterGroups(filters, keep_separators) ==
    /\ groups' = GroupManager_filter_groups(groups, filters, keep_separators)
    /\ last' = [NoLast EXCEPT !.op = "filter_groups", !.pre = groups,
                              !.arg = [filters |-> filters,
                                       keep_separators |-> keep_separators]]
    /\ UNCHANGED <<events, all_param_keys, all_result_keys, calls, storage, pool, callback>>

\* the filter maps of the runs: key -> collection of allowed values
FilterMaps == DictsOf({ParamKeys[k] : k \in 1..Len(ParamKeys)}, SUBSET {"a", PyNone})

\* --------------------------------------- a manager whose groups are filtered
InitFilter ==
    /\ groups = <<>>
    /\ events = <<>>
    /\ all_param_keys = <<>>
    /\ all_result_keys = <<>>
    /\ last = NoLast
    /\ calls = 0
    /\ storage = NoStorage
    /\ pool = NoPool
    /\ callback = NoCallback

NextFilter ==
    \/ \E params \in ParamDicts : Len(groups) < MaxGroups /\ AddGroup("n", <<1>>, params)
    \/ Len(groups) < MaxGroups /\ AddSeparator
    \/ \E filters \in FilterMaps, keep \in BOOLEAN : FilterGroups(filters, keep)

SpecFilter == InitFilter /\ [][NextFilter]_vars

\* ------------------------------------------------------ TbParser.parse_ids
\* disk: what TbParser.list_paths finds under dir_ and what reading a job's
\* files yields: job id -> scalar logs ({} when every file failed to read or
\* holds no scalars).  Returns [exc, events]: the assertion on ids without
\* files names them in its message.
TbParser_parse_ids(disk, ids) ==
    IF Len(ids) = 0 THEN [exc |-> NoExc, events |-> <<>>]
    ELSE LET failed == SelectSeq(ids, LAMBDA id : id \notin DOMAIN disk)
             asked == {ids[k] : k \in 1..Len(ids)}
         IN IF Len(failed) # 0
            THEN [exc |-> Exc("AssertionError", failed), events |-> <<>>]
            ELSE [exc |-> NoExc, events |-> [id \in asked |-> disk[id]]]

\* --------------------------------------------- GroupManager.update_groups
\* "only parse newly added jobs": len(events.get(id_, {})) == 0
NeedsParsingIfAbsent(ev, id) == id \notin DOMAIN ev
NeedsParsing(ev, id) == (IF id \in DOMAIN ev THEN ev[id] ELSE <<>>) = <<>>

\* ids.extend(group.ids) over all groups
RECURSIVE AllIds(_)
AllIds(gs) == IF gs = <<>> THEN <<>> ELSE Head(gs).ids \o AllIds(Tail(gs))

\* the ids handed to TbParser.parse_ids
IdsToParse(gs, ev, force) ==
    IF force THEN AllIds(gs) ELSE SelectSeq(AllIds(gs), LAMBDA id : NeedsParsing(ev, id))

\* "update data and results of each group": groups k.. of gs in turn, until
\* one raises
RECURSIVE UpdateEachGroup(_, _, _, _, _)
UpdateEachGroup(gs, k, ev, metrics, ark) ==
    IF k > Len(gs) THEN [groups |-> gs, ark |-> ark, exc |-> NoExc]
    ELSE LET g1 == Group_update_all_data(gs[k], ev)
             r == Group_update_results(g1, metrics, ark)
             gs1 == [gs EXCEPT ![k] = [g1 EXCEPT !.results = r.results, !.data = r.data]]
         IN IF r.exc.type # "" THEN [groups |-> gs1, ark |-> r.ark, exc |-> r.exc]
            ELSE UpdateEachGroup(gs1, k + 1, ev, metrics, r.ark)
\* (stored_data['events'] of a closed shelf raises ValueError; an open shelf
\* is synced by update_events)
UpdateGroups(disk, metrics, force) ==
    /\ calls < MaxCalls
    /\ \E p \in {TbParser_parse_ids(disk, IdsToParse(groups, events, force))} :
       LET rec == [NoLast EXCEPT !.op = "update_groups", !.metrics = metrics,
                                 !.arg = [force |-> force, located |-> DOMAIN disk],
                                 !.parsed = IdsToParse(groups, events, force),
                                 !.prev = [op |-> last.op, arg |-> last.arg,
                                           exc |-> last.exc,
                                           returned |-> last.returned]]
       IN IF storage.kind = "closed"
          THEN /\ last' = [rec EXCEPT !.exc = Exc("ValueError", <<>>),
                                      !.parsed = IF force THEN AllIds(groups) ELSE <<>>]
               /\ UNCHANGED <<groups, events, all_result_keys, storage>>
          ELSE IF p.exc.type # ""
          THEN /\ last' = [rec EXCEPT !.exc = p.exc]
               /\ UNCHANGED <<groups, events, all_result_keys, storage>>
          ELSE \E u \in {UpdateEachGroup(groups, 1, p.events @@ events, metrics,
                                         all_result_keys)} :
               /\ events' = p.events @@ events
               /\ storage' = IF storage.kind = "shelf"
                             THEN [storage EXCEPT !.file = p.events @@ events]
                             ELSE storage
               /\ groups' = u.groups
               /\ all_result_keys' = u.ark
               /\ last' = [rec EXCEPT !.exc = u.exc, !.returned = Some(p.events)]
    /\ calls' = calls + 1
    /\ UNCHANGED <<all_param_keys, pool, callback>>

\* the inputs of the runs: job id lists of a group, directories, metric lists
IdLists == {<<1>>, <<1, 2, 2>>}
ReadLogs == {<<>>, [acc |-> SeriesOf(<<1>>)]}
Disks == DictsOf({1, 2}, ReadLogs)
RequiredMaxOfAcc == Metric("acc", "acc", None, None, None, {"max"})
MetricLists == {<<MaxOfAcc>>, <<RequiredMaxOfAcc>>}

\* ------------------------------- a manager whose groups are read and updated
InitUpdate ==
    /\ groups = <<>>
    /\ events = <<>>
    /\ all_param_keys = <<>>
    /\ all_result_keys = <<>>
    /\ last = NoLast
    /\ calls = 0
    /\ storage = NoStorage
    /\ pool = NoPool
    /\ callback = NoCallback

NextUpdate ==
    \/ \E ids \in IdLists : Len(groups) < MaxManaged /\ AddGroup("n", ids, <<>>)
    \/ Len(groups) < MaxManaged /\ AddSeparator
    \/ \E disk \in Disks, metrics \in MetricLists, force \in BOOLEAN :
          UpdateGroups(disk, metrics, force)

SpecUpdate == InitUpdate /\ [][NextUpdate]_vars

\* ------------------------------------ GroupManager.merge_groups_by_param
\* Group.get_param_tuple(skip_keys): the group's parameters without the
\* skipped keys
Group_get_param_tuple(g, skip_keys) ==
    [k \in DOMAIN g.params \ skip_keys |-> g.params[k]]

\* "merged %d" % len(cluster)
MergedName(n) == "merged " \o ToString(n)

\* for g2 in cluster: g.merge(g2)
RECURSIVE MergeAll(_, _)
MergeAll(g, cluster) ==
    IF cluster = <<>> THEN g ELSE MergeAll(Group_merge(g, Head(cluster)), Tail(cluster))

\* dict.pop(key) and OrderedDict.pop(key) on a present key
DictPop(d, key) == [k \in DOMAIN d \ {key} |-> d[k]]
RegistryPop(keys, key) == SelectSeq(keys, LAMBDA k : k # key)

\* merge_groups_by_param(name, as_new_groups) on the list gs with registry
\* apk.  The clusters are keyed by get_param_tuple(skip_keys) and kept in
\* the order of their first member (a defaultdict); pop_if_kept is the
\* registry pop in the as_new_groups branch, which the code does not have.
\* Returns [groups, apk, exc].
MergeGroupsByParam(gs, name, as_new_groups, apk, skip_keys, pop_if_kept) ==
    LET data == SelectSeq(gs, LAMBDA g : ~g.sep)
        n == Len(data)
        tup(i) == Group_get_param_tuple(data[i], skip_keys)
        first(i) == \A j \in 1..(i - 1) : tup(j) # tup(i)
        firsts == SelectSeq([i \in 1..n |-> i], LAMBDA i : first(i))
        members(r) == SelectSeq([i \in 1..n |-> i], LAMBDA i : tup(i) = tup(r))
        cluster(r) == [k \in 1..Len(members(r)) |-> data[members(r)[k]]]
        built(r) == MergeAll(Group(MergedName(Len(members(r))), <<>>, <<>>), cluster(r))
        all == [k \in 1..Len(firsts) |-> built(firsts[k])]
        popped == [k \in 1..Len(all) |-> [all[k] EXCEPT !.params = DictPop(@, name)]]
        blanked == [k \in 1..Len(all) |->
                       [all[k] EXCEPT !.params = (name :> "") @@ DictPop(@, name)]]
        registered == \E k \in 1..Len(apk) : apk[k] = name
    IN IF \E k \in 1..Len(all) : name \notin DOMAIN all[k].params
       THEN [groups |-> gs, apk |-> apk, exc |-> Exc("KeyError", <<>>)]
       ELSE IF as_new_groups
       THEN IF pop_if_kept /\ registered
            THEN [groups |-> gs \o popped, apk |-> RegistryPop(apk, name), exc |-> NoExc]
            ELSE [groups |-> gs \o popped, apk |-> apk, exc |-> NoExc]
       ELSE IF registered
            THEN [groups |-> blanked, apk |-> RegistryPop(apk, name), exc |-> NoExc]
            ELSE [groups |-> blanked, apk |-> apk, exc |-> Exc("KeyError", <<>>)]

GroupManager_mergeByFullTuple(gs, name, as_new_groups, apk) ==
    MergeGroupsByParam(gs, name, as_new_groups, apk, {}, FALSE)
GroupManager_mergePopsAlways(gs, name, as_new_groups, apk) ==
    MergeGroupsByParam(gs, name, as_new_groups, apk, {name}, TRUE)
GroupManager_merge_groups_by_param(gs, name, as_new_groups, apk) ==
    MergeGroupsByParam(gs, name, as_new_groups, apk, {name}, FALSE)

MergeByParam(name, as_new_groups) ==
    /\ calls < MaxCalls
    /\ \E r \in {GroupManager_merge_groups_by_param(groups, name, as_new_groups,
                                                    all_param_keys)} :
          /\ groups' = r.groups
          /\ all_param_keys' = r.apk
          /\ last' = [NoLast EXCEPT !.op = "merge_groups_by_param", !.exc = r.exc,
                                    !.pre = groups,
                                    !.arg = [name |-> name,
                                             as_new_groups |-> as_new_groups,
                                             all_param_keys |-> all_param_keys]]
    /\ calls' = calls + 1
    /\ UNCHANGED <<events, all_result_keys, storage, pool, callback>>

\* ------------------------ a manager whose groups are merged by a parameter
InitMergeBy ==
    /\ groups = <<>>
    /\ events = <<>>
    /\ all_param_keys = <<>>
    /\ all_result_keys = <<>>
    /\ last = NoLast
    /\ calls = 0
    /\ storage = NoStorage
    /\ pool = NoPool
    /\ callback = NoCallback

NextMergeBy ==
    \/ \E ids \in {<<1>>, <<2, 1>>}, params \in ParamDicts :
          Len(groups) < MaxClustered /\ calls = 0 /\ AddGroup("n", ids, params)
    \/ Len(groups) < MaxClustered /\ calls = 0 /\ AddSeparator
    \/ \E name \in {"model", "mu"}, as_new_groups \in BOOLEAN :
          MergeByParam(name, as_new_groups)

SpecMergeBy == InitMergeBy /\ [][NextMergeBy]_vars

\* ---------------------------------------------- GroupManager.sorted_results
\* self.empty_result
EmptyResult == StrResult("__gm_empty__", NA)

\* key=lambda g: g.results.get(sort_by, self.empty_result)
SortKey(g, sort_by) == IF sort_by \in DOMAIN g.results THEN g.results[sort_by] ELSE EmptyResult

Reverse(s) == [i \in 1..Len(s) |-> s[Len(s) + 1 - i]]

\* sorted(results, key=..., reverse=descending) on a list of fewer than 64
\* entries, as CPython's list.sort runs it on items [key, item]: the leading
\* run (non-descending, or strictly descending and then reversed) is
\* extended by binary insertion; every comparison is  a.key < b.key.
\* CountRun returns the length of the leading run and whether it descends.
CountRun(s) ==
    IF Len(s) < 2 THEN [n |-> Len(s), descending |-> FALSE]
    ELSE LET desc == Result_lt(s[2].key, s[1].key)
             goes(k) == Result_lt(s[k].key, s[k - 1].key) = desc
             n == CHOOSE m \in 2..Len(s) :
                     /\ \A k \in 3..m : goes(k)
                     /\ m < Len(s) => ~goes(m + 1)
         IN [n |-> n, descending |-> desc]

\* binarysort's search of the slot of pivot in p[l+1..r] (0-based l, r)
RECURSIVE BinarySlot(_, _, _, _)
BinarySlot(p, pivot, l, r) ==
    IF l >= r THEN l
    ELSE LET m == l + ((r - l) \div 2)
         IN IF Result_lt(pivot.key, p[m + 1].key)
            THEN BinarySlot(p, pivot, l, m)
            ELSE BinarySlot(p, pivot, m + 1, r)

RECURSIVE BinarySort(_, _)
BinarySort(p, rest) ==
    IF rest = <<>> THEN p
    ELSE LET l == BinarySlot(p, Head(rest), 0, Len(p))
         IN BinarySort(SubSeq(p, 1, l) \o <<Head(rest)>> \o SubSeq(p, l + 1, Len(p)),
                       Tail(rest))

ListSort(s) ==
    LET run == CountRun(s)
        head == SubSeq(s, 1, run.n)
    IN BinarySort(IF run.descending THEN Reverse(head) ELSE head,
                  SubSeq(s, run.n + 1, Len(s)))

PySortedIgnoresReverse(s, reverse) == ListSort(s)
PySorted(s, reverse) == IF reverse THEN Reverse(ListSort(Reverse(s))) ELSE ListSort(s)

\* the loop of sorted_results that drops a separator following a separator
KeepAllSeparators(s) == s
CollapseSeparators(s) ==
    LET idx == SelectSeq([i \in 1..Len(s) |-> i],
                         LAMBDA i : ~(i > 1 /\ s[i - 1].sep /\ s[i].sep))
    IN [k \in 1..Len(idx) |-> s[idx[k]]]

\* sorted_results(sort_by, descending, no_consecutive_separators); sort_by is
\* None for the empty string, else a result name
GroupManager_sorted_results(gs, sort_by, descending, no_consecutive_separators) ==
    LET items == [i \in 1..Len(gs) |-> [key |-> SortKey(gs[i], Val(sort_by)), item |-> gs[i]]]
        sorted == PySorted(items, descending)
        results == IF IsNone(sort_by) THEN gs
                   ELSE [i \in 1..Len(sorted) |-> sorted[i].item]
    IN IF no_consecutive_separators THEN CollapseSeparators(results) ELSE results

SortedResults(sort_by, descending, no_consecutive_separators) ==
    /\ last' = [NoLast EXCEPT
                  !.op = "sorted_results", !.pre = groups,
                  !.arg = [sort_by |-> sort_by, descending |-> descending,
                           no_consecutive_separators |-> no_consecutive_separators],
                  !.returned = Some(GroupManager_sorted_results(
                                      groups, sort_by, descending,
                                      no_consecutive_separators))]
    /\ UNCHANGED <<groups, events, all_param_keys, all_result_keys, calls, storage, pool, callback>>

\* ------------------------------------------------- table rows of a Group
\* Result.str with the default float_acc = 2: a str value verbatim, a number
\* num/den >= 0 as '%.2f' (no value of the runs lies on a rounding tie)
Result_str(r) ==
    IF r.kind = "str" THEN r.s
    ELSE LET cents == (200 * r.num + r.den) \div (2 * r.den)
         IN ToString(cents \div 100) \o "."
            \o (IF cents % 100 < 10 THEN "0" ELSE "") \o ToString(cents % 100)

\* the result name '%s %s' % (name, aggregate) as the registry holds it
ResultNameStr(n) == n[1] \o " " \o n[2]

\* str(self.ids)
RECURSIVE IdsTail(_)
IdsTail(ids) == IF ids = <<>> THEN "" ELSE ", " \o ToString(Head(ids)) \o IdsTail(Tail(ids))
IdsStr(ids) == IF ids = <<>> THEN "[]" ELSE "[" \o ToString(Head(ids)) \o IdsTail(Tail(ids)) \o "]"

\* Group.__filter(dct, ignore_keys) on the two registries
FilterParamKeys(apk, ignore_keys) == SelectSeq(apk, LAMBDA k : k \notin ignore_keys)
FilterResultKeys(ark, ignore_keys) ==
    SelectSeq(ark, LAMBDA n : ResultNameStr(n) \notin ignore_keys)

\* A rendered line is held as the list of its pieces between the separator
\* string (';' for csv).  separator.join(fields) has one piece per field, and
\* the single empty piece when there is no field.
Join(fields) == IF fields = <<>> THEN <<"">> ELSE fields
\* '{n};{ids};;{params};;{values};'.format(...)
CsvFormat(n, ids, params, values) == <<n, ids, "">> \o params \o <<"">> \o values \o <<"">>

\* Group.get_csv_str_header(ignore_keys=...)
Group_get_csv_str_header(apk, ark, ignore_keys) ==
    LET param_keys == FilterParamKeys(apk, ignore_keys)
        value_keys == FilterResultKeys(ark, ignore_keys)
    IN CsvFormat("name", "slurm_ids", Join(param_keys),
                 Join([k \in 1..Len(value_keys) |-> ResultNameStr(value_keys[k])]))

\* Group.get_csv_str(ignore_keys=...): [exc, line]; self.results.get(k) is
\* None for a registered result the group does not hold, and None has no .str
Group_get_csv_str(g, apk, ark, ignore_keys) ==
    LET param_keys == FilterParamKeys(apk, ignore_keys)
        value_keys == FilterResultKeys(ark, ignore_keys)
    IN IF g.sep THEN [exc |-> NoExc, line |-> <<"">>]
       ELSE IF \E k \in 1..Len(value_keys) : value_keys[k] \notin DOMAIN g.results
       THEN [exc |-> Exc("AttributeError", <<>>), line |-> <<>>]
       ELSE [exc |-> NoExc,
             line |-> CsvFormat(g.name, IdsStr(g.ids),
                                Join([k \in 1..Len(param_keys) |->
                                        IF param_keys[k] \in DOMAIN g.params
                                        THEN g.params[param_keys[k]] ELSE ""]),
                                Join([k \in 1..Len(value_keys) |->
                                        Result_str(g.results[value_keys[k]])]))]

CsvStrHeader(i, ignore_keys) ==
    /\ i \in 1..Len(groups)
    /\ last' = [NoLast EXCEPT
                  !.op = "get_csv_str_header", !.i = i,
                  !.arg = [ignore_keys |-> ignore_keys],
                  !.returned = Some(Group_get_csv_str_header(
                                      all_param_keys, all_result_keys, ignore_keys))]
    /\ UNCHANGED <<groups, events, all_param_keys, all_result_keys, calls, storage, pool, callback>>

CsvStr(i, ignore_keys) ==
    /\ i \in 1..Len(groups)
    /\ \E r \in {Group_get_csv_str(groups[i], all_param_keys, all_result_keys,
                                   ignore_keys)} :
          last' = [NoLast EXCEPT
                     !.op = "get_csv_str", !.i = i, !.exc = r.exc,
                     !.arg = [ignore_keys |-> ignore_keys],
                     !.returned = IF r.exc.type = "" THEN Some(r.line) ELSE None]
    /\ UNCHANGED <<groups, events, all_param_keys, all_result_keys, calls, storage, pool, callback>>

\* ---------------------------------- a manager whose groups are tabulated
\* the rows of the table: groups without results, with 'acc max' = N/A (no
\* job logged acc) and with a numeric 'acc max'
TableGroups(name) ==
    {BuiltGroup(name, <<1>>, params, lm[1], lm[2]) :
        params \in DictsOf({"mu"}, {"a"}),
        lm \in {<<None, <<>>>>, <<None, <<MaxOfAcc>>>>}
               \cup {<<Some([acc |-> SeriesOf(<<v>>)]), <<MaxOfAcc>>>> : v \in Vals}}
TableRows(name) == TableGroups(name) \cup {GroupSeparator}
RowName(i) == "n" \o ToString(i)

RECURSIVE RegisteredParams(_)
RegisteredParams(gs) ==
    IF gs = <<>> THEN <<>>
    ELSE RegisterAll(RegisteredParams(SubSeq(gs, 1, Len(gs) - 1)),
                     KwargKeys(gs[Len(gs)].params))
RECURSIVE RegisteredResults(_)
RegisteredResults(gs) ==
    IF gs = <<>> THEN <<>>
    ELSE RegisterAll(RegisteredResults(SubSeq(gs, 1, Len(gs) - 1)),
                     SeqOfSet(DOMAIN gs[Len(gs)].results))

\* the lists of n rows; row i was added under the name RowName(i)
RECURSIVE TableLists(_)
TableLists(n) ==
    IF n = 0 THEN {<<>>}
    ELSE {Append(gs, g) : gs \in TableLists(n - 1), g \in TableRows(RowName(n))}

InitTable ==
    /\ \E n \in 0..MaxRows : groups \in TableLists(n)
    /\ all_param_keys = RegisteredParams(groups)
    /\ all_result_keys = RegisteredResults(groups)
    /\ events = <<>>
    /\ last = NoLast
    /\ calls = 0
    /\ storage = NoStorage
    /\ pool = NoPool
    /\ callback = NoCallback

SortNames == {None, Some(<<"acc", "max">>)}
IgnoreSets == SUBSET {"mu", "acc max"}

\* the queries leave the manager as it is: one query per run
NextTable ==
    \/ \E sort_by \in SortNames, descending \in BOOLEAN, ncs \in BOOLEAN :
          last.op = "init" /\ SortedResults(sort_by, descending, ncs)
    \/ \E ignore_keys \in IgnoreSets :
          last.op = "init" /\ CsvStrHeader(1, ignore_keys)
    \/ \E i \in 1..MaxRows, ignore_keys \in IgnoreSets :
          last.op = "init" /\ CsvStr(i, ignore_keys)

SpecTable == InitTable /\ [][NextTable]_vars

\* -------------------------------------------- the storage of a GroupManager
\* shelve.open(self.storage_path, writeback=True): the dbm module refuses a
\* file that is held open (by this manager's own shelf or by another
\* manager) when it locks the files it opens, and opens it otherwise
ShelveOpenFails(st) == st.exclusive /\ (st.second \/ st.kind = "shelf")

\* GroupManager.open_storage() with stored_data['events'] = ev.
\* Returns [exc, storage, events].
GroupManager_open_storageAnyContent(st, ev) ==
    IF ~st.path THEN [exc |-> NoExc, storage |-> st, events |-> ev]
    ELSE IF ShelveOpenFails(st)
    THEN [exc |-> Exc("dbm.error", <<>>), storage |-> st, events |-> ev]
    ELSE [exc |-> NoExc, storage |-> [st EXCEPT !.kind = "shelf"], events |-> st.file]
GroupManager_open_storage(st, ev) ==
    IF ~st.path THEN [exc |-> NoExc, storage |-> st, events |-> ev]
    ELSE IF ~(st.kind \in {"shelf", "closed"} \/ ev = <<>>)
    THEN [exc |-> Exc("AssertionError", <<>>), storage |-> st, events |-> ev]
    ELSE IF ShelveOpenFails(st)
    THEN [exc |-> Exc("dbm.error", <<>>), storage |-> st, events |-> ev]
    ELSE [exc |-> NoExc, storage |-> [st EXCEPT !.kind = "shelf"], events |-> st.file]

\* GroupManager.close_storage(use_dict_now).  Returns [exc, storage].
\* A closed shelf is still a DbfilenameShelf: get_all_events() on it raises
\* ValueError, sync() and close() on it do nothing.
GroupManager_close_storage(st, ev, use_dict_now) ==
    IF st.kind = "shelf"
    THEN [exc |-> NoExc,
          storage |-> [st EXCEPT !.file = ev,
                                 !.kind = IF use_dict_now THEN "dict" ELSE "closed"]]
    ELSE IF st.kind = "closed" /\ use_dict_now
    THEN [exc |-> Exc("ValueError", <<>>), storage |-> st]
    ELSE [exc |-> NoExc, storage |-> st]

StorageRecord(op, exc, arg) ==
    [NoLast EXCEPT !.op = op, !.exc = exc, !.arg = arg,
                   !.pre = [storage |-> storage, events |-> events]]

OpenStorage ==
    /\ \E r \in {GroupManager_open_storage(storage, events)} :
          /\ storage' = r.storage
          /\ events' = r.events
          /\ last' = StorageRecord("open_storage", r.exc, <<>>)
    /\ UNCHANGED <<groups, all_param_keys, all_result_keys, calls, pool, callback>>

CloseStorage(use_dict_now) ==
    /\ \E r \in {GroupManager_close_storage(storage, events, use_dict_now)} :
          /\ storage' = r.storage
          /\ last' = StorageRecord("close_storage", r.exc, [use_dict_now |-> use_dict_now])
    /\ UNCHANGED <<groups, events, all_param_keys, all_result_keys, calls, pool, callback>>

\* GroupManager.copy(): close_storage(use_dict_now=True), then deepcopy(self)
GroupManager_copyReturnsSelf(self) == SameObject(1, self)
GroupManager_copy(self) == Deepcopy(1, self)
Copy ==
    /\ \E r \in {GroupManager_close_storage(storage, events, TRUE)} :
          /\ storage' = r.storage
          /\ last' = [StorageRecord("copy", r.exc, <<>>) EXCEPT
                        !.returned = IF r.exc.type # "" THEN None
                                     ELSE Some(GroupManager_copy(
                                               [groups |-> groups, events |-> events,
                                                storage |-> r.storage]))]
    /\ UNCHANGED <<groups, events, all_param_keys, all_result_keys, calls, pool, callback>>

\* GroupManager.update_events(events)
UpdateEvents(ev) ==
    /\ IF storage.kind = "closed"
       THEN /\ last' = StorageRecord("update_events", Exc("ValueError", <<>>), <<>>)
            /\ UNCHANGED <<events, storage>>
       ELSE /\ events' = ev @@ events
            /\ storage' = IF storage.kind = "shelf"
                          THEN [storage EXCEPT !.file = ev @@ events] ELSE storage
            /\ last' = StorageRecord("update_events", NoExc, [events |-> ev])
    /\ UNCHANGED <<groups, all_param_keys, all_result_keys, calls, pool, callback>>

\* GroupManager(storage_path) constructed by someone else on the same path:
\* __init__ runs open_storage with an empty dict
SecondManager ==
    /\ ~storage.second
    /\ storage.path
    /\ \E failed \in {ShelveOpenFails(storage)} :
          /\ storage' = [storage EXCEPT !.second = ~failed]
          /\ last' = StorageRecord("second_manager",
                                   IF failed THEN Exc("dbm.error", <<>>) ELSE NoExc, <<>>)
    /\ UNCHANGED <<groups, events, all_param_keys, all_result_keys, calls, pool, callback>>

\* update_events(ev) of the second manager: its shelf is synced to the file
SecondUpdateEvents(ev) ==
    /\ storage.second
    /\ storage' = [storage EXCEPT !.file = ev @@ storage.file]
    /\ last' = StorageRecord("second_update_events", NoExc, <<>>)
    /\ UNCHANGED <<groups, events, all_param_keys, all_result_keys, calls, pool, callback>>

\* close_storage() of the second manager
SecondClose ==
    /\ storage.second
    /\ storage' = [storage EXCEPT !.second = FALSE]
    /\ last' = StorageRecord("second_close", NoExc, <<>>)
    /\ UNCHANGED <<groups, events, all_param_keys, all_result_keys, calls, pool, callback>>

\* --------------------------------------------- a manager on a shelve file
\* what the file holds when the manager is constructed, and what is written
PersistedEvents == DictsOf({1, 2}, ReadLogs)
WrittenEvents == {(1 :> <<>>), (2 :> [acc |-> SeriesOf(<<1>>)])}

\* GroupManager(storage_path): open_storage() loads what the file holds
InitStorage ==
    /\ \E file \in PersistedEvents, exclusive \in BOOLEAN :
          /\ storage = [path |-> TRUE, kind |-> "shelf", file |-> file,
                        exclusive |-> exclusive, second |-> FALSE]
          /\ events = file
    /\ groups = <<>>
    /\ all_param_keys = <<>>
    /\ all_result_keys = <<>>
    /\ last = NoLast
    /\ calls = 0
    /\ pool = NoPool
    /\ callback = NoCallback

NextStorage ==
    \/ OpenStorage
    \/ CloseStorage(FALSE)
    \/ Copy
    \/ \E ev \in WrittenEvents : UpdateEvents(ev)
    \/ SecondManager
    \/ \E ev \in WrittenEvents : SecondUpdateEvents(ev)
    \/ SecondClose

SpecStorage == InitStorage /\ [][NextStorage]_vars

\* ------------------------------------------------ GroupManager.copy_group
\* get_group(name=name): a deepcopy of the first entry with that name (the
\* search runs over separators too), None when there is none
GroupManager_get_group(gs, name) ==
    LET hits == SelectSeq(gs, LAMBDA g : g.name = name)
    IN IF hits = <<>> THEN None ELSE Some(Head(hits))

\* ------------------------------------------------- GroupManager.get_group
\* get_group(name=None, job_id=None) with name and job_id None or given.
\* Returns [exc, returned]: the first entry (separators are searched too)
\* with name == g.name or job_id in g.ids, copied; None when there is none.
GroupManager_get_group_by(gs, name, job_id) ==
    LET match(g) == name = Some(g.name)
                    \/ \E k \in 1..Len(g.ids) : job_id = Some(g.ids[k])
        hits == {i \in 1..Len(gs) : match(gs[i])}
        first == CHOOSE i \in hits : \A j \in hits : i <= j
    IN IF IsNone(name) /\ IsNone(job_id)
       THEN [exc |-> Exc("AssertionError", <<>>), returned |-> None]
       ELSE IF hits = {} THEN [exc |-> NoExc, returned |-> None]
       ELSE [exc |-> NoExc, returned |-> Some(Deepcopy(first, gs[first]))]

GetGroup(name, job_id) ==
    /\ \E r \in {GroupManager_get_group_by(groups, name, job_id)} :
          last' = [NoLast EXCEPT !.op = "get_group", !.exc = r.exc, !.pre = groups,
                                 !.arg = [name |-> name, job_id |-> job_id],
                                 !.returned = r.returned]
    /\ UNCHANGED <<groups, events, all_param_keys, all_result_keys, calls, storage, pool, callback>>

\* the caller changes the group it was handed: g.params.update(changes),
\* which reaches the manager's group when both are one object
MutateReturned(changes) ==
    /\ last.op = "get_group"
    /\ last.returned # None
    /\ LET o == Val(last.returned)
           g == [o.obj EXCEPT !.params = changes @@ o.obj.params]
       IN /\ groups' = IF o.alias = 0 THEN groups ELSE [groups EXCEPT ![o.alias] = g]
          /\ last' = [NoLast EXCEPT !.op = "mutate_returned", !.pre = groups,
                                    !.arg = last.arg,
                                    !.returned = Some([o EXCEPT !.obj = g])]
    /\ UNCHANGED <<events, all_param_keys, all_result_keys, calls, storage, pool, callback>>

\* ------------------------------------- a manager whose groups are looked up
LookupNames == {None, Some("n"), Some("x")}
LookupIds == {None, Some(1), Some(3)}

InitLookup ==
    /\ groups = <<>>
    /\ events = <<>>
    /\ all_param_keys = <<>>
    /\ all_result_keys = <<>>
    /\ last = NoLast
    /\ calls = 0
    /\ storage = NoStorage
    /\ pool = NoPool
    /\ callback = NoCallback

NextLookup ==
    \/ \E name \in {"n", "m"}, ids \in {<<1>>, <<2, 1>>}, params \in {<<>>, [model |-> "a"]} :
          Len(groups) < MaxManaged /\ last.op \in {"init", "add_group", "add_separator"}
          /\ AddGroup(name, ids, params)
    \/ Len(groups) < MaxManaged /\ last.op \in {"init", "add_group", "add_separator"}
       /\ AddSeparator
    \/ \E name \in LookupNames, job_id \in LookupIds : GetGroup(name, job_id)
    \/ \E changes \in {[model |-> "b"], [mu |-> "b"]} : MutateReturned(changes)

SpecLookup == InitLookup /\ [][NextLookup]_vars

\* copy_group(name, new_name, param_changes).  Returns [exc, groups]:
\* setting .name on None raises AttributeError; the copy's params are updated
\* in place, Group.__init__ does not run and nothing is registered.
GroupManager_copy_group(gs, name, new_name, param_changes) ==
    LET g == GroupManager_get_group(gs, name)
    IN IF IsNone(g) THEN [exc |-> Exc("AttributeError", <<>>), groups |-> gs]
       ELSE [exc |-> NoExc,
             groups |-> Append(gs, [Val(g) EXCEPT !.name = new_name,
                                                  !.params = param_changes @@ Val(g).params])]

CopyGroup(name, new_name, param_changes) ==
    /\ \E r \in {GroupManager_copy_group(groups, name, new_name, param_changes)} :
          /\ groups' = r.groups
          /\ last' = [NoLast EXCEPT !.op = "copy_group", !.exc = r.exc, !.pre = groups,
                                    !.arg = [name |-> name, new_name |-> new_name,
                                             param_changes |-> param_changes,
                                             all_param_keys |-> all_param_keys]]
    /\ UNCHANGED <<events, all_param_keys, all_result_keys, calls, storage, pool, callback>>

\* ----------------------------------------------------- GroupManager.merge
\* merge(other): update_events(other.get_all_events()), then every group of
\* this manager merges the first group of the other with its name
MergeFirstByName(g1, others) ==
    LET hits == SelectSeq(others, LAMBDA g2 : g1.name = g2.name)
    IN IF hits = <<>> THEN g1 ELSE Group_merge(g1, Head(hits))
GroupManager_merge(gs, others) == [k \in 1..Len(gs) |-> MergeFirstByName(gs[k], others)]

\* the other manager holds one group made by add_group(name, ids, **params):
\* its construction registers the keys, then this manager merges it
MergeManager(name, ids, params) ==
    /\ calls < MaxCalls
    /\ storage.kind # "closed"
    /\ groups' = GroupManager_merge(groups, <<Group(name, ids, params)>>)
    /\ all_param_keys' = RegisterAll(all_param_keys, KwargKeys(params))
    /\ last' = [NoLast EXCEPT !.op = "merge_manager", !.pre = groups,
                              !.arg = [name |-> name, params |-> params]]
    /\ calls' = calls + 1
    /\ UNCHANGED <<events, all_result_keys, storage, pool, callback>>

\* ------------------------- a manager driven through its group operations
ManagedParams == {<<>>, [model |-> "a"], [model |-> "b", mu |-> "a"]}
ParamChanges == {<<>>, [model |-> "b"], [mu |-> "b"]}
ManagedDisk == (1 :> [acc |-> SeriesOf(<<1>>)])

InitManage ==
    /\ groups = <<>>
    /\ events = <<>>
    /\ all_param_keys = <<>>
    /\ all_result_keys = <<>>
    /\ last = NoLast
    /\ calls = 0
    /\ storage = NoStorage
    /\ pool = NoPool
    /\ callback = NoCallback

NextManage ==
    \/ \E name \in {"n", "m"}, params \in ManagedParams :
          Len(groups) < MaxManaged /\ AddGroup(name, <<1>>, params)
    \/ \E name \in {"n", "x"}, param_changes \in ParamChanges :
          Len(groups) < MaxGroups /\ CopyGroup(name, "c", param_changes)
    \/ \E params \in ManagedParams : MergeManager("n", <<2>>, params)
    \/ \E name \in {"model", "mu"}, as_new_groups \in BOOLEAN :
          MergeByParam(name, as_new_groups)
    \/ FilterGroups([model |-> {"a", "b"}], TRUE)
    \/ Copy
    \/ calls = 0 /\ UpdateGroups(ManagedDisk, <<MaxOfAcc>>, FALSE)

SpecManage == InitManage /\ [][NextManage]_vars

\* ------------------------------------------- TbParser.read_events_files
\* One tensorboard file as the reader meets it: read is what lines 69-72
\* store in the unit's events before the file ends or an exception ends it
\* (events[tag] = [] comes before the scalars are appended, so a tag can be
\* left empty), failed tells whether reading it raised an Exception.
LogFile(read, failed) == [read |-> read, failed |-> failed]
LogFiles ==
    {LogFile([acc |-> SeriesOf(<<1>>)], FALSE), LogFile([loss |-> SeriesOf(<<0>>)], FALSE),
     LogFile(<<>>, TRUE), LogFile([acc |-> <<>>], TRUE)}

\* one pass of the loop over event_filenames.  Returns [events, printed,
\* raised]: the except clause prints and swallows the failure.
TbParser_read_one_fileUncaught(ev, file) ==
    [events |-> file.read @@ ev, printed |-> FALSE, raised |-> file.failed]
TbParser_read_one_file(ev, file) ==
    [events |-> file.read @@ ev, printed |-> file.failed, raised |-> FALSE]

\* read_events_files((slurm_id, event_filenames)) from file k on
RECURSIVE TbParser_read_events_files(_, _, _)
TbParser_read_events_files(ev, files, k) ==
    IF k > Len(files) THEN ev
    ELSE TbParser_read_events_files(TbParser_read_one_file(ev, files[k]).events, files, k + 1)

\* a unit of work of pool.map: one task, the file it reads next, the events
\* read so far, the diagnostics printed, and whether it has returned
Unit(id, files) ==
    [id |-> id, files |-> files, next |-> 1, events |-> <<>>, printed |-> 0,
     returned |-> FALSE]

\* events[slurm_id] = ev over the event tuples, in the order of the tasks
RECURSIVE MergeTuples(_, _)
MergeTuples(units, k) ==
    IF k = 0 THEN <<>>
    ELSE (units[k].id :> units[k].events) @@ MergeTuples(units, k - 1)

\* parse_ids(dir_, ids) up to pool.map: paths is what list_paths found
ParseIds(paths, ids) ==
    /\ pool.state = "idle"
    /\ LET failed == SelectSeq(ids, LAMBDA id : id \notin DOMAIN paths)
       IN pool' = IF Len(ids) = 0
                  THEN [pool EXCEPT !.state = "returned", !.returned = Some(<<>>)]
                  ELSE IF Len(failed) # 0
                  THEN [pool EXCEPT !.state = "raised", !.ids = ids,
                                    !.exc = Exc("AssertionError", failed)]
                  ELSE [pool EXCEPT !.state = "mapping", !.ids = ids,
                                    !.units = [k \in 1..Len(ids) |->
                                                  Unit(ids[k], paths[ids[k]])]]
    /\ last' = [NoLast EXCEPT !.op = "parse_ids"]
    /\ UNCHANGED <<groups, events, all_param_keys, all_result_keys, calls, storage, callback>>

\* a worker of the pool reads the next file of unit u; an exception that
\* leaves read_events_files comes back out of pool.map
ReadFile(u) ==
    /\ pool.state = "mapping"
    /\ u \in 1..Len(pool.units)
    /\ ~pool.units[u].returned
    /\ pool.units[u].next <= Len(pool.units[u].files)
    /\ \E r \in {TbParser_read_one_file(pool.units[u].events,
                                        pool.units[u].files[pool.units[u].next])} :
          pool' = IF r.raised
                  THEN [pool EXCEPT !.state = "raised", !.exc = Exc("Exception", <<>>)]
                  ELSE [pool EXCEPT !.units[u].events = r.events,
                                    !.units[u].next = @ + 1,
                                    !.units[u].printed = @ + (IF r.printed THEN 1 ELSE 0)]
    /\ last' = [NoLast EXCEPT !.op = "read_file", !.i = u]
    /\ UNCHANGED <<groups, events, all_param_keys, all_result_keys, calls, storage, callback>>

\* unit u returns (slurm_id, events)
UnitReturns(u) ==
    /\ pool.state = "mapping"
    /\ u \in 1..Len(pool.units)
    /\ ~pool.units[u].returned
    /\ pool.units[u].next > Len(pool.units[u].files)
    /\ pool' = [pool EXCEPT !.units[u].returned = TRUE]
    /\ last' = [NoLast EXCEPT !.op = "unit_returns", !.i = u]
    /\ UNCHANGED <<groups, events, all_param_keys, all_result_keys, calls, storage, callback>>

\* pool.map has every event tuple: they are merged into the returned dict
ParseIdsReturns ==
    /\ pool.state = "mapping"
    /\ \A u \in 1..Len(pool.units) : pool.units[u].returned
    /\ pool' = [pool EXCEPT !.state = "returned",
                            !.returned = Some(MergeTuples(pool.units, Len(pool.units)))]
    /\ last' = [NoLast EXCEPT !.op = "parse_ids_returns"]
    /\ UNCHANGED <<groups, events, all_param_keys, all_result_keys, calls, storage, callback>>

\* ---------------------------------------------- one call of parse_ids
\* what list_paths finds: job id -> the files of its folder (at least one
\* for a job that has a folder entry)
FileLists == SeqsOf(LogFiles, 1, MaxFiles)
SiblingFiles == {<<LogFile([acc |-> SeriesOf(<<1>>)], FALSE)>>, <<LogFile(<<>>, TRUE)>>}
FoundPaths ==
    {(1 :> f) : f \in FileLists} \cup {(1 :> f) @@ (2 :> g) : f \in FileLists, g \in SiblingFiles}
AskedIds == {<<>>, <<1>>, <<1, 2>>, <<2, 1>>}

InitParse ==
    /\ groups = <<>>
    /\ events = <<>>
    /\ all_param_keys = <<>>
    /\ all_result_keys = <<>>
    /\ last = NoLast
    /\ calls = 0
    /\ storage = NoStorage
    /\ pool = NoPool
    /\ callback = NoCallback

NextParse ==
    \/ \E paths \in FoundPaths, ids \in AskedIds : ParseIds(paths, ids)
    \/ \E u \in 1..2 : ReadFile(u)
    \/ \E u \in 1..2 : UnitReturns(u)
    \/ ParseIdsReturns

SpecParse == InitParse /\ [][NextParse]_vars

\* ------------------------------- filter_groups on what copy() returned
\* gm.copy().filter_groups(filters): the copy's group list is replaced, and
\* so is this manager's when both are one object
FilterCopy(filters, keep_separators) ==
    /\ last.op = "copy"
    /\ last.returned # None
    /\ LET o == Val(last.returned)
           filtered == GroupManager_filter_groups(o.obj.groups, filters, keep_separators)
       IN /\ groups' = IF o.alias = 0 THEN groups ELSE filtered
          /\ last' = [NoLast EXCEPT !.op = "filter_copy", !.pre = groups,
                                    !.arg = [filters |-> filters,
                                             keep_separators |-> keep_separators],
                                    !.returned = Some([o EXCEPT !.obj.groups = filtered])]
    /\ UNCHANGED <<events, all_param_keys, all_result_keys, calls, storage, pool, callback>>

\* ------------------------- a manager that is filtered directly or by copy
CopyFilters == {<<>>, [model |-> {"a"}], [mu |-> {"a", PyNone}]}

InitCopy ==
    /\ groups = <<>>
    /\ events = <<>>
    /\ all_param_keys = <<>>
    /\ all_result_keys = <<>>
    /\ last = NoLast
    /\ calls = 0
    /\ storage = NoStorage
    /\ pool = NoPool
    /\ callback = NoCallback

NextCopy ==
    \/ \E params \in ParamDicts :
          Len(groups) < MaxManaged /\ last.op \in {"init", "add_group", "add_separator"}
          /\ AddGroup("n", <<1>>, params)
    \/ Len(groups) < MaxManaged /\ last.op \in {"init", "add_group", "add_separator"}
       /\ AddSeparator
    \/ Copy
    \/ \E filters \in CopyFilters, keep \in BOOLEAN : FilterCopy(filters, keep)
    \/ \E filters \in CopyFilters, keep \in BOOLEAN : FilterGroups(filters, keep)

SpecCopy == InitCopy /\ [][NextCopy]_vars

\* ---------------------------------------------- comparing two Results
\* a < b, a == b and b < a as Python evaluates them on two Result objects
Compare(a, b) ==
    /\ last' = [NoLast EXCEPT !.op = "compare", !.arg = [a |-> a, b |-> b],
                              !.returned = Some([lt |-> Result_lt(a, b),
                                                 eq |-> Result_eq(a, b),
                                                 gt |-> Result_lt(b, a),
                                                 self_lt |-> Result_lt(a, a)])]
    /\ UNCHANGED <<groups, events, all_param_keys, all_result_keys, calls, storage, pool, callback>>

\* the Results compared: the sentinels a Metrics can carry as its
\* not_available_value, and numbers as fractions
ComparedNames == {<<"acc", "max">>, <<"acc", "min">>}
ComparedResults ==
    {StrResult(n, v) : n \in ComparedNames, v \in {NA, "-"}}
    \cup {NumResult(n, a, b) : n \in ComparedNames, a \in {0, 1, 2}, b \in {1, 2}}

InitCompare ==
    /\ groups = <<>>
    /\ events = <<>>
    /\ all_param_keys = <<>>
    /\ all_result_keys = <<>>
    /\ last = NoLast
    /\ calls = 0
    /\ storage = NoStorage
    /\ pool = NoPool
    /\ callback = NoCallback

NextCompare == \E a, b \in ComparedResults : Compare(a, b)

SpecCompare == InitCompare /\ [][NextCompare]_vars

\* ------------------------- evaluating a group whose data came from the cache
\* update_all_data hands the cache's own series lists to the group
\* (self.data[id_].update(data.get(id_))), so the cache shows whatever an
\* evaluation does to a list the group holds under the same job and key
CacheSeenThrough(ev, g) ==
    [id \in DOMAIN ev |->
        [k \in DOMAIN ev[id] |->
            IF id \in DOMAIN g.data /\ k \in DOMAIN g.data[id]
            THEN g.data[id][k] ELSE ev[id][k]]]

\* g.update_results(metrics) on group i of a manager, as update_groups runs
\* it after g.update_all_data(self.get_all_events())
EvaluateCached(i, metrics) ==
    /\ calls < MaxCalls
    /\ ~groups[i].sep
    /\ \E r \in {Group_update_results(groups[i], metrics, all_result_keys)} :
          /\ groups' = [groups EXCEPT ![i].results = r.results, ![i].data = r.data]
          /\ events' = CacheSeenThrough(events, [groups[i] EXCEPT !.data = r.data])
          /\ all_result_keys' = r.ark
          /\ last' = [NoLast EXCEPT !.op = "evaluate_cached", !.i = i, !.exc = r.exc,
                                    !.metrics = metrics,
                                    !.pre = [groups |-> groups, events |-> events]]
    /\ calls' = calls + 1
    /\ UNCHANGED <<all_param_keys, storage, pool, callback>>

\* the cache of the manager: the jobs' logs, series of one or two samples
CachedLogs == {[acc |-> SeriesOf(v)] : v \in {<<1>>, <<0, 1>>, <<1, 0>>}}
CachedEvents == {ev \in DictsOf({1, 2}, CachedLogs) : ev # <<>>}
TruncatingMetrics ==
    {Metric("acc", "acc", Some(NA), tr[1], tr[2], {a}) :
        a \in {"avg", "max"},
        tr \in {<<None, None>>, <<Some(1), None>>, <<None, Some(1)>>}}

InitCached ==
    /\ \E ev \in CachedEvents :
          /\ events = ev
          /\ groups = <<Group_update_all_data(Group("g", <<1, 2>>, <<>>), ev)>>
    /\ all_param_keys = <<>>
    /\ all_result_keys = <<>>
    /\ last = NoLast
    /\ calls = 0
    /\ storage = NoStorage
    /\ pool = NoPool
    /\ callback = NoCallback

NextCached ==
    \/ \E m \in TruncatingMetrics : EvaluateCached(1, <<m>>)
    \/ \E m1, m2 \in TruncatingMetrics : EvaluateCached(1, <<m1, m2>>)

SpecCached == InitCached /\ [][NextCached]_vars

\* ----------------------------------------------------------------- JobState
JobStates == {"PENDING", "RUNNING", "COMPLETED", "FAILED", "CANCELLED", "JOB_NOT_FOUND"}
JobState_value(s) ==
    CASE s = "PENDING" -> 0 [] s = "RUNNING" -> 10 [] s = "COMPLETED" -> 20
      [] s = "FAILED" -> 30 [] s = "CANCELLED" -> 40 [] s = "JOB_NOT_FOUND" -> 50

\* JobState.is_terminated
JobState_is_terminated(self) ==
    self \in {"COMPLETED", "FAILED", "CANCELLED", "JOB_NOT_FOUND"}

\* JobState.is_before(state): "whether the given state is in any state before
\* the own one"
JobState_is_before(self, state) ==
    IF JobState_is_terminated(state) THEN FALSE
    ELSE JobState_value(state) < JobState_value(self)

\* what sacct can report next for a job it reports as s
JobMoves(s) ==
    CASE s = "PENDING" -> {"RUNNING", "CANCELLED"}
      [] s = "RUNNING" -> {"COMPLETED", "FAILED", "CANCELLED"}
      [] s = "JOB_NOT_FOUND" -> {"PENDING"}
      [] OTHER -> {}

\* ------------------------------------------------- ReachedJobStateCallback
\* ReachedJobStateCallback(slurm_id, target_state=target).start()
StartCallback(target, job) ==
    /\ callback.pc = "new"
    /\ callback' = [callback EXCEPT !.pc = "run_fun", !.target = target, !.job = job]
    /\ last' = [NoLast EXCEPT !.op = "start"]
    /\ UNCHANGED <<groups, events, all_param_keys, all_result_keys, calls, storage, pool>>

\* ReachedJobStateCallback._run_fun with state = JobState.get_job_state(...).
\* Returns the callback after it: the handler called, stop() run or not.
ReachedJobStateCallback_run_fun(cb, state) ==
    LET observed == [cb EXCEPT !.seen = Append(@, state)]
    IN IF state = cb.target
       THEN [observed EXCEPT !.on_target = @ + 1, !.keep_running = FALSE]
       ELSE IF JobState_is_terminated(state) \/ JobState_is_before(cb.target, state)
       THEN [observed EXCEPT !.on_other = Append(@, state), !.keep_running = FALSE]
       ELSE observed

\* AbstractCallback.run: run_fun(), then "while self.keep_running" sleeps and
\* runs run_fun() again; the thread ends when keep_running is False
RunFun ==
    /\ callback.pc = "run_fun"
    /\ Len(callback.seen) < MaxPolls
    /\ \E cb \in {ReachedJobStateCallback_run_fun(callback, callback.job)} :
          callback' = [cb EXCEPT !.pc = IF cb.keep_running THEN "sleep" ELSE "ended"]
    /\ last' = [NoLast EXCEPT !.op = "run_fun"]
    /\ UNCHANGED <<groups, events, all_param_keys, all_result_keys, calls, storage, pool>>

\* self._abortable_sleep(self.seconds) returns
Wake ==
    /\ callback.pc = "sleep"
    /\ callback' = [callback EXCEPT !.pc = "run_fun"]
    /\ last' = [NoLast EXCEPT !.op = "wake"]
    /\ UNCHANGED <<groups, events, all_param_keys, all_result_keys, calls, storage, pool>>

\* the cluster moves the job on
JobAdvances(s) ==
    /\ callback.pc \in {"run_fun", "sleep"}
    /\ s \in JobMoves(callback.job)
    /\ callback' = [callback EXCEPT !.job = s]
    /\ last' = [NoLast EXCEPT !.op = "job_advances"]
    /\ UNCHANGED <<groups, events, all_param_keys, all_result_keys, calls, storage, pool>>

\* -------------------------------------- a callback thread watching a job
InitCallback ==
    /\ groups = <<>>
    /\ events = <<>>
    /\ all_param_keys = <<>>
    /\ all_result_keys = <<>>
    /\ last = NoLast
    /\ calls = 0
    /\ storage = NoStorage
    /\ pool = NoPool
    /\ callback = NoCallback

NextCallback ==
    \/ \E target \in JobStates, job \in JobStates : StartCallback(target, job)
    \/ RunFun
    \/ Wake
    \/ \E s \in JobStates : JobAdvances(s)

SpecCallback == InitCallback /\ [][NextCallback]_vars

\* ================================================== claims on update_results
\* the group the last update_results call worked on, before and after, and
\* the metric it evaluated
LastGroup == groups[last.i]
PreGroup == last.pre[last.i]
LastMetric == last.metrics[1]
LastName == <<LastMetric.name, CHOOSE a \in LastMetric.aggs : TRUE>>
Updated == last.op = "update_results"

\* the documented order on Results: a sentinel below every number, numbers by value
SpecLess(a, b) ==
    \/ a.kind = "str" /\ b.kind = "num"
    \/ a.kind = "num" /\ b.kind = "num" /\ a.num * b.den < b.num * a.den

\* what the metric computes from the group's data in this call
LastComputed ==
    Metrics_from_values(LastMetric,
                        Group_values(LastGroup, LastMetric.key, LastMetric.last_k).values)

\* C2: update_results keeps the maximum of the stored and the new Result: a
\* stored Result is never removed or replaced by a strictly smaller one, a
\* number is never replaced by a sentinel, and what is stored afterwards is
\* not below the newly computed Result.
C2_KeepsMaximum ==
    Updated =>
        /\ \A n \in DOMAIN PreGroup.results :
              /\ n \in DOMAIN LastGroup.results
              /\ ~SpecLess(LastGroup.results[n], PreGroup.results[n])
              /\ PreGroup.results[n].kind = "num" => LastGroup.results[n].kind = "num"
        /\ last.exc.type = "" =>
              \A k \in 1..Len(LastComputed.results) :
                 LET r == LastComputed.results[k]
                 IN /\ r.name \in DOMAIN LastGroup.results
                    /\ ~SpecLess(LastGroup.results[r.name], r)
                    /\ LastGroup.results[r.name] \in
                          {r, ResultGet(PreGroup.results, r.name)}

\* a call whose new Result is strictly below the stored one, which is kept
C2_Witness ==
    /\ Updated
    /\ last.exc.type = ""
    /\ \E k \in 1..Len(LastComputed.results) :
          LET r == LastComputed.results[k]
          IN /\ r.name \in DOMAIN PreGroup.results
             /\ SpecLess(r, PreGroup.results[r.name])
             /\ LastGroup.results[r.name] = PreGroup.results[r.name]

\* the jobs of the group's data that lack the key, and the stored lengths
MissingJobs(g, key) == {id \in DOMAIN g.data : key \notin DOMAIN g.data[id]}
HavingJobs(g, key) == {id \in DOMAIN g.data : key \in DOMAIN g.data[id]}

\* C3: a required metric (no not_available_value) with a non-empty missing
\* list makes update_results fail with an error naming the missing job ids,
\* and stores no result for the metric; here in the case the claim includes,
\* where other jobs of the group do have the key.
C3_RequiredKeyMissingFails ==
    (Updated /\ IsNone(LastMetric.not_available_value)
             /\ MissingJobs(LastGroup, LastMetric.key) # {}
             /\ HavingJobs(LastGroup, LastMetric.key) # {}) =>
        /\ last.exc.type # ""
        /\ last.exc.ids = SortedSeq(MissingJobs(LastGroup, LastMetric.key))
        /\ LastGroup.results = PreGroup.results

\* two jobs hold series of different lengths for the key
Ragged(g, key) ==
    \E a, b \in HavingJobs(g, key) : Len(g.data[a][key]) # Len(g.data[b][key])
\* the number of samples of a series of length n left by the last_k cut
WindowLen(n, last_k) ==
    IF ~IsNone(last_k) /\ Val(last_k) > 0 /\ Val(last_k) < n THEN Val(last_k) ELSE n
RaggedAfterLastK(g, key, last_k) ==
    \E a, b \in HavingJobs(g, key) :
        WindowLen(Len(g.data[a][key]), last_k) # WindowLen(Len(g.data[b][key]), last_k)

\* C4 as claimed: ragged series for the key are fatal for every truncation
\* setting, and no result is produced.
C4_RaggedAlwaysFatal ==
    (Updated /\ Ragged(LastGroup, LastMetric.key)) =>
        /\ last.exc.type # ""
        /\ LastGroup.results = PreGroup.results

\* C4 as amended: series whose lengths still differ after the metric's last_k
\* cut (no cut with first_k or without truncation) are fatal and produce no
\* result; ragged series with equally long last-k windows are not rejected by
\* the length check.
C4_RaggedAfterCutFatal ==
    Updated =>
        /\ RaggedAfterLastK(LastGroup, LastMetric.key, LastMetric.last_k) =>
              /\ last.exc.type = "AssertionError"
              /\ LastGroup.results = PreGroup.results
        /\ (/\ Ragged(LastGroup, LastMetric.key)
            /\ ~RaggedAfterLastK(LastGroup, LastMetric.key, LastMetric.last_k)) =>
              /\ last.exc.type = ""
              /\ LastName \in DOMAIN LastGroup.results

\* ragged series rejected under a last_k metric, whose cut leaves them ragged
C4_Witness ==
    /\ Updated
    /\ ~IsNone(LastMetric.last_k)
    /\ RaggedAfterLastK(LastGroup, LastMetric.key, LastMetric.last_k)
    /\ last.exc.type = "AssertionError"

\* the samples of a series the metric's truncation setting selects
Window(vals, m) ==
    IF ~IsNone(m.first_k) THEN SliceFirst(vals, Val(m.first_k))
    ELSE IF ~IsNone(m.last_k) THEN SliceLast(vals, Val(m.last_k))
    ELSE vals
WindowRows(g, m) ==
    LET ids == SortedSeq(HavingJobs(g, m.key))
    IN [i \in 1..Len(ids) |-> Window(SeriesValues(g.data[ids[i]][m.key]), m)]

\* a successful first evaluation of the metric on jobs that have the key
FreshlyComputed ==
    /\ Updated
    /\ last.exc.type = ""
    /\ HavingJobs(LastGroup, LastMetric.key) # {}
    /\ LastName \notin DOMAIN PreGroup.results

\* C5: with first_k = k only the first k samples of every job's series, and
\* with last_k = k only the last k, enter the aggregate (max and min).
C5_OnlyWindowAggregated ==
    (FreshlyComputed /\ LastName[2] \in {"max", "min"}) =>
        LET r == LastGroup.results[LastName]
            w == Flatten(WindowRows(LastGroup, LastMetric))
        IN /\ r.kind = "num"
           /\ r.den = 1
           /\ r.num = IF LastName[2] = "max" THEN MaxSeq(w) ELSE MinSeq(w)

\* C6: on a group with a single job, avg is the mean of the job's series after
\* the metric's truncation.
C6_SingleJobAvgIsMean ==
    (FreshlyComputed /\ LastName[2] = "avg" /\ Len(LastGroup.ids) = 1) =>
        LET r == LastGroup.results[LastName]
            w == WindowRows(LastGroup, LastMetric)[1]
        IN /\ r.kind = "num"
           /\ r.num * Len(w) = SumSeq(w) * r.den

\* ========================================================== claims on merge
Merged == last.op = "merge"
MSelf == last.pre[last.i]
MOther == last.pre[last.j]
MSelfAfter == groups[last.i]
MOtherAfter == groups[last.j]

Both(a, b) == DOMAIN a \cap DOMAIN b
OnlyIn(a, b) == DOMAIN a \ DOMAIN b

\* C7: after self.merge(other) self.ids is the old self.ids followed by
\* other.ids (duplicates kept), self.name is unchanged, every key of params,
\* data or results that both groups have holds other's value, every key only
\* self has keeps its value, and other is unchanged.
C7_MergeOverlaysOther ==
    Merged =>
        /\ MSelfAfter.ids = MSelf.ids \o MOther.ids
        /\ MSelfAfter.name = MSelf.name
        /\ \A k \in Both(MSelf.params, MOther.params) :
              MSelfAfter.params[k] = MOther.params[k]
        /\ \A k \in Both(MSelf.data, MOther.data) : MSelfAfter.data[k] = MOther.data[k]
        /\ \A k \in Both(MSelf.results, MOther.results) :
              MSelfAfter.results[k] = MOther.results[k]
        /\ \A k \in OnlyIn(MSelf.params, MOther.params) :
              k \in DOMAIN MSelfAfter.params /\ MSelfAfter.params[k] = MSelf.params[k]
        /\ \A k \in OnlyIn(MSelf.data, MOther.data) :
              k \in DOMAIN MSelfAfter.data /\ MSelfAfter.data[k] = MSelf.data[k]
        /\ \A k \in OnlyIn(MSelf.results, MOther.results) :
              k \in DOMAIN MSelfAfter.results /\ MSelfAfter.results[k] = MSelf.results[k]
        /\ MOtherAfter = MOther

\* a merge with a shared job id, with colliding params, data and results of
\* different values, and with a key only self has
C7_Witness ==
    /\ Merged
    /\ \E a \in 1..Len(MSelf.ids), b \in 1..Len(MOther.ids) : MSelf.ids[a] = MOther.ids[b]
    /\ \E k \in Both(MSelf.params, MOther.params) : MSelf.params[k] # MOther.params[k]
    /\ \E k \in Both(MSelf.data, MOther.data) : MSelf.data[k] # MOther.data[k]
    /\ \E k \in Both(MSelf.results, MOther.results) : MSelf.results[k] # MOther.results[k]
    /\ OnlyIn(MSelf.params, MOther.params) # {}

\* C8 as claimed: merging A into B (B.merge(A)) gives B's ids followed by A's,
\* and B's value remains for every params and results key both groups have.
C8_ReceiverWins ==
    Merged =>
        /\ MSelfAfter.ids = MSelf.ids \o MOther.ids
        /\ \A k \in Both(MSelf.params, MOther.params) :
              MSelfAfter.params[k] = MSelf.params[k]
        /\ \A k \in Both(MSelf.results, MOther.results) :
              MSelfAfter.results[k] = MSelf.results[k]

\* C8 as amended: B.merge(A) gives B's ids followed by A's, and A's value
\* remains for every params and results key both groups have.
C8_MergedInWins ==
    Merged =>
        /\ MSelfAfter.ids = MSelf.ids \o MOther.ids
        /\ \A k \in Both(MSelf.params, MOther.params) :
              MSelfAfter.params[k] = MOther.params[k] 
        /\ \A k \in Both(MSelf.results, MOther.results) :
              MSelfAfter.results[k] = MOther.results[k]

\* B.merge(A) where A and B disagree on a parameter and on a result
C8_Witness ==
    /\ Merged
    /\ MSelf.name = "B" /\ MOther.name = "A"
    /\ \E k \in Both(MSelf.params, MOther.params) :
          MSelf.params[k] # MOther.params[k] /\ MSelfAfter.params[k] = MOther.params[k]
    /\ \E k \in Both(MSelf.results, MOther.results) :
          MSelf.results[k] # MOther.results[k] /\ MSelfAfter.results[k] = MOther.results[k]

\* ================================================== claims on filter_groups
Filtered == last.op = "filter_groups"
NonSeparators(gs) == SelectSeq(gs, LAMBDA g : ~g.sep)
Separators(gs) == SelectSeq(gs, LAMBDA g : g.sep)

\* every filter key is a parameter of the group, with an allowed value
Matches(g, filters) ==
    \A key \in DOMAIN filters : key \in DOMAIN g.params /\ g.params[key] \in filters[key]

\* C9: filter_groups retains, in their order, exactly the non-separator groups
\* that have every filter key in params with an allowed value; a group without
\* a filter key is never retained.
C9_RetainsExactlyMatching ==
    Filtered =>
        NonSeparators(groups) =
            SelectSeq(NonSeparators(last.pre), LAMBDA g : Matches(g, last.arg.filters))

\* C10: filter_groups keeps every separator with keep_separators = True and
\* leaves none with keep_separators = False, for every filter map.
C10_SeparatorsFollowFlag ==
    Filtered =>
        IF last.arg.keep_separators
        THEN Separators(groups) = Separators(last.pre)
        ELSE Separators(groups) = <<>>

\* ================================================== claims on update_groups
\* an update_groups(force=False) call right after an update_groups(force=False)
\* call whose parse_ids returned, with no group added in between
SecondCallInARow ==
    /\ last.op = "update_groups" /\ ~last.arg.force
    /\ last.prev.op = "update_groups" /\ ~last.prev.arg.force
    /\ ~IsNone(last.prev.returned)
FirstReturned == Val(last.prev.returned)

\* C1 as claimed: the second call hands an empty id list to parse_ids, for
\* every outcome of the first call's per-job parsing (here: after a first
\* call that returned normally).
C1_SecondCallParsesNothing ==
    (SecondCallInARow /\ last.prev.exc.type = "") => last.parsed = <<>>

\* C1 as amended: the second call hands to parse_ids exactly the group ids
\* whose parse in the first call returned an empty log (their cache entry is
\* empty), so nothing when every job parsed by the first call yielded a key.
C1_SecondCallParsesOnlyEmpty ==
    SecondCallInARow =>
        /\ last.parsed =
              SelectSeq(AllIds(groups),
                        LAMBDA id : id \in DOMAIN FirstReturned /\ FirstReturned[id] = <<>>)
        /\ (\A id \in DOMAIN FirstReturned : FirstReturned[id] # <<>>) => last.parsed = <<>>

\* a second call that parses again a job whose first parse returned nothing
C1_Witness ==
    /\ SecondCallInARow
    /\ \E id \in DOMAIN FirstReturned : FirstReturned[id] = <<>>
    /\ last.parsed # <<>>

\* ======================================= claims on merge_groups_by_param
MergedBy == last.op = "merge_groups_by_param" /\ last.exc.type = ""
MergeKey == last.arg.name
Originals == NonSeparators(last.pre)
\* the merged groups the call produced
Produced ==
    IF last.arg.as_new_groups
    THEN SubSeq(groups, Len(last.pre) + 1, Len(groups))
    ELSE groups

\* two groups agree on every parameter key other than key
AgreeExcept(g, h, key) ==
    \A k \in (DOMAIN g.params \cup DOMAIN h.params) \ {key} :
        k \in DOMAIN g.params /\ k \in DOMAIN h.params /\ g.params[k] = h.params[k]
\* the positions of the originals that agree with original i, and the first
\* position of every such class, in manager order
ClassOf(i) ==
    SelectSeq([j \in 1..Len(Originals) |-> j],
              LAMBDA j : AgreeExcept(Originals[j], Originals[i], MergeKey))
ClassFirsts ==
    SelectSeq([j \in 1..Len(Originals) |-> j], LAMBDA j : ClassOf(j)[1] = j)
IdsOfClass(i) == Flatten([k \in 1..Len(ClassOf(i)) |-> Originals[ClassOf(i)[k]].ids])
CountIn(s, x) == Cardinality({k \in 1..Len(s) : s[k] = x})
AllIdsOf(gs) == Flatten([k \in 1..Len(gs) |-> gs[k].ids])

Sorted == last.op = "sorted_results"
SortedBy == Sorted /\ ~IsNone(last.arg.sort_by)
Rows == Val(last.returned)
DataRows == NonSeparators(Rows)
\* the numeric result of a row under the name sorted by, if it has one
HasNumber(g) ==
    /\ Val(last.arg.sort_by) \in DOMAIN g.results
    /\ g.results[Val(last.arg.sort_by)].kind = "num"
NumberOf(g) == g.results[Val(last.arg.sort_by)]
\* a <= b for numeric results (fractions with positive denominators)
NumLeq(a, b) == a.num * b.den <= b.num * a.den

\* C13: sorted_results(sort_by, descending) with a non-empty sort_by orders
\* the data groups by that result: descending, the numeric results are
\* non-increasing and every group without a numeric result comes after all
\* groups with one; ascending, the groups without one come first and the
\* numeric results are non-decreasing.
C13_OrderedByResult ==
    SortedBy =>
        \A i, j \in 1..Len(DataRows) :
            i < j =>
               IF last.arg.descending
               THEN /\ HasNumber(DataRows[j]) => HasNumber(DataRows[i])
                    /\ HasNumber(DataRows[j]) =>
                          NumLeq(NumberOf(DataRows[j]), NumberOf(DataRows[i]))
               ELSE /\ HasNumber(DataRows[i]) => HasNumber(DataRows[j])
                    /\ HasNumber(DataRows[i]) =>
                          NumLeq(NumberOf(DataRows[i]), NumberOf(DataRows[j]))

\* a descending sort that had to move a group: the list held a group without
\* the result before a group with 0 before a group with 1
C13_Witness ==
    /\ SortedBy
    /\ last.arg.descending
    /\ Len(NonSeparators(last.pre)) = 3
    /\ ~HasNumber(NonSeparators(last.pre)[1])
    /\ HasNumber(NonSeparators(last.pre)[2])
    /\ HasNumber(NonSeparators(last.pre)[3])
    /\ ~NumLeq(NumberOf(NonSeparators(last.pre)[3]), NumberOf(NonSeparators(last.pre)[2]))
    /\ DataRows[1] = NonSeparators(last.pre)[3]


\* where the separators stand in a list
SepPattern(gs) == [i \in 1..Len(gs) |-> gs[i].sep]

\* a separator of the manager's list stands between two data groups
SeparatorBetweenData ==
    \E a, i, b \in 1..Len(last.pre) :
        a < i /\ i < b /\ ~last.pre[a].sep /\ last.pre[i].sep /\ ~last.pre[b].sep

\* C14: when sorted_results sorts by a result name, a separator that stands
\* between two data groups keeps its place and only the data groups are
\* reordered around it: the returned sequence has its separators where the
\* manager's list has them (where that list with adjacent separators
\* collapsed has them, when collapsing is asked for).
C14_SeparatorsKeepPlace ==
    (SortedBy /\ SeparatorBetweenData) =>
        SepPattern(Rows) =
            SepPattern(IF last.arg.no_consecutive_separators
                       THEN CollapseSeparators(last.pre) ELSE last.pre)

\* the sequence sorted_results works on before it collapses separators
Uncollapsed ==
    GroupManager_sorted_results(last.pre, last.arg.sort_by, last.arg.descending, FALSE)
\* a list with every separator dropped that is followed by a separator
RECURSIVE OnePerRun(_)
OnePerRun(s) ==
    IF Len(s) < 2 THEN s
    ELSE IF s[1].sep /\ s[2].sep THEN OnePerRun(Tail(s))
    ELSE <<s[1]>> \o OnePerRun(Tail(s))

\* C15: the row sequence print_csv_table and print_latex_table use
\* (sorted_results with no_consecutive_separators=True) never has two
\* separators in immediate succession: every maximal run of separators is
\* reduced to one separator, and every data group is kept.
C15_NoConsecutiveSeparators ==
    (Sorted /\ last.arg.no_consecutive_separators) =>
        /\ \A i \in 1..(Len(Rows) - 1) : ~(Rows[i].sep /\ Rows[i + 1].sep)
        /\ NonSeparators(Rows) = NonSeparators(Uncollapsed)
        /\ Rows = OnePerRun(Uncollapsed)

\* a sort that brought two separators together, of which one row remains
C15_Witness ==
    /\ SortedBy
    /\ last.arg.no_consecutive_separators
    /\ \A i \in 1..(Len(last.pre) - 1) : ~(last.pre[i].sep /\ last.pre[i + 1].sep)
    /\ \E i \in 1..(Len(Uncollapsed) - 1) : Uncollapsed[i].sep /\ Uncollapsed[i + 1].sep
    /\ Len(Rows) < Len(last.pre)
    /\ Len(DataRows) >= 1


\* ==================================================== claims on table rows
\* get_csv_str was called on a data group
RenderedRow == last.op = "get_csv_str" /\ ~groups[last.i].sep
RowGroup == groups[last.i]
\* the registered keys that are not ignored, in registry order
ShownParams == SelectSeq(all_param_keys, LAMBDA k : k \notin last.arg.ignore_keys)
ShownResults ==
    SelectSeq(all_result_keys, LAMBDA n : ResultNameStr(n) \notin last.arg.ignore_keys)
\* the fields of one block: one per key, and one empty field for no key
BlockLen(keys) == IF Len(keys) = 0 THEN 1 ELSE Len(keys)
ParamField(g, k) == IF k \in DOMAIN g.params THEN g.params[k] ELSE ""
ResultField(g, n) == IF n \in DOMAIN g.results THEN Result_str(g.results[n]) ELSE ""

\* C16: rendering the table row of a data group succeeds for every state of
\* the registries: a registered parameter key the group does not have gives a
\* blank field, and so does a registered result key the group holds no Result
\* for.
C16_RowAlwaysRenders ==
    RenderedRow =>
        /\ last.exc.type = ""
        /\ \A k \in 1..Len(ShownParams) :
              Val(last.returned)[3 + k] = ParamField(RowGroup, ShownParams[k])
        /\ \A k \in 1..Len(ShownResults) :
              Val(last.returned)[4 + BlockLen(ShownParams) + k]
                  = ResultField(RowGroup, ShownResults[k])

\* the header of the table under the ignore set of the rendered row
HeaderOfRow ==
    Group_get_csv_str_header(all_param_keys, all_result_keys, last.arg.ignore_keys)

\* C17: the header row and the row of a data group are built from the same
\* keys in the same order: both have the same number of fields, laid out as
\* name, id list, blank, the non-ignored registered parameter keys in registry
\* order, blank, the non-ignored registered result keys in registry order, and
\* field i of the row is the group's value for the key in field i of the
\* header.
C17_RowAlignsWithHeader ==
    RenderedRow =>
        /\ last.exc.type = ""
        /\ Len(Val(last.returned)) = Len(HeaderOfRow)
        /\ HeaderOfRow[1] = "name" /\ Val(last.returned)[1] = RowGroup.name
        /\ HeaderOfRow[2] = "slurm_ids" /\ Val(last.returned)[2] = IdsStr(RowGroup.ids)
        /\ HeaderOfRow[3] = "" /\ Val(last.returned)[3] = ""
        /\ \A k \in 1..Len(ShownParams) :
              /\ HeaderOfRow[3 + k] = ShownParams[k]
              /\ Val(last.returned)[3 + k] = ParamField(RowGroup, ShownParams[k])
        /\ HeaderOfRow[4 + BlockLen(ShownParams)] = ""
        /\ Val(last.returned)[4 + BlockLen(ShownParams)] = ""
        /\ \A k \in 1..Len(ShownResults) :
              /\ HeaderOfRow[4 + BlockLen(ShownParams) + k] = ResultNameStr(ShownResults[k])
              /\ Val(last.returned)[4 + BlockLen(ShownParams) + k]
                    = ResultField(RowGroup, ShownResults[k])


\* ================================================== claims on the storage
\* C19: constructing a second GroupManager on a storage_path whose file is
\* held open by a live GroupManager fails at once with an error; it never
\* leaves two managers holding the same file open for writing.
C19_SecondWriterFails ==
    (last.op = "second_manager" /\ last.pre.storage.kind = "shelf") =>
        /\ last.exc.type # ""
        /\ ~storage.second

\* the manager handed off its file (copy() closes the shelf and keeps a dict)
\* and no other manager holds the file
HandedOff(st) == st.path /\ st.kind = "dict" /\ ~st.second
Copied == last.op = "copy" /\ last.pre.storage.kind = "shelf"
Reopened == last.op = "open_storage" /\ HandedOff(last.pre.storage)

\* C20: after copy() a file-backed manager holds an in-memory snapshot equal
\* to the cache contents of that moment, and a later open_storage() on it
\* reopens the file-backed handle, whatever the cache holds.
C20_ReopensAnyContent ==
    /\ Copied => storage.kind = "dict" /\ events = storage.file
                                      /\ events = last.pre.events
    /\ Reopened => last.exc.type = "" /\ storage.kind = "shelf"

\* C20 as the code has it: the snapshot is the cache contents; open_storage()
\* reopens the file only for a snapshot without events, and fails with an
\* AssertionError that leaves the manager on its snapshot otherwise.
C20_ReopensEmptySnapshot ==
    /\ Copied => storage.kind = "dict" /\ events = storage.file
                                      /\ events = last.pre.events
    /\ Reopened =>
          IF last.pre.events = <<>>
          THEN /\ last.exc.type = ""
               /\ storage.kind = "shelf"
               /\ events = last.pre.storage.file
          ELSE /\ last.exc.type = "AssertionError"
               /\ storage = last.pre.storage
               /\ events = last.pre.events

\* a manager that reopened its file after handing it off
C20_Witness ==
    /\ Reopened
    /\ last.exc.type = ""
    /\ storage.kind = "shelf"

\* ------------------------------------------------------------------- C18
\* C18: in every state reached through the manager's operations, every key
\* of every held group's params is in Group.all_param_keys.
InRegistry(k) == \E i \in 1..Len(all_param_keys) : all_param_keys[i] = k
C18_ParamKeysRegistered ==
    \A i \in 1..Len(groups) : \A k \in DOMAIN groups[i].params : InRegistry(k)

\* ------------------------------------------------------------------- C21
\* C21: whenever update_events(ev) of a manager constructed with a
\* storage_path returns, at any point of the manager's life (after copy()
\* too), the file holds every supplied job entry.
UpdatedEvents == last.op = "update_events" /\ last.exc.type = ""
Persisted(ev) == \A id \in DOMAIN ev : id \in DOMAIN storage.file /\ storage.file[id] = ev[id]
C21_UpdateEventsDurable == UpdatedEvents => Persisted(last.arg.events)

\* ------------------------------------------------------------------- C22
\* C22: when update_groups hands the reader a job id whose files are not
\* under the directory, the call does not fail: the other ids handed over
\* are parsed into the cache and the missing id is just absent from what the
\* reader returned.
UpdatedGroups == last.op = "update_groups"
ParsedIds == {last.parsed[k] : k \in 1..Len(last.parsed)}
NotLocated == ParsedIds \ last.arg.located
AsksForMissingJob == UpdatedGroups /\ storage.kind # "closed" /\ NotLocated # {}
C22_MissingJobIsNoError ==
    AsksForMissingJob =>
        /\ last.exc.type # "AssertionError"
        /\ last.returned # None
        /\ DOMAIN Val(last.returned) = ParsedIds \ NotLocated
        /\ \A id \in ParsedIds \ NotLocated :
              id \in DOMAIN events /\ events[id] = Val(last.returned)[id]

\* ------------------------------------------------------------------- C23
\* C23: a failure while reading one job's log file is caught inside its unit
\* of work: parse_ids does not raise on it, every unit returns, and the
\* returned map holds for every job asked for what its unit read from its
\* files (a print per failed file, the failed file adding no scalars).
SomeFileFailed ==
    \E u \in 1..Len(pool.units) : \E k \in 1..Len(pool.units[u].files) :
        pool.units[u].files[k].failed
FailedFiles(files) == Len(SelectSeq(files, LAMBDA f : f.failed))
C23_ReadFailureStaysInUnit ==
    SomeFileFailed =>
        /\ pool.state # "raised"
        /\ pool.state = "returned" =>
              /\ \A u \in 1..Len(pool.units) :
                    /\ pool.units[u].returned
                    /\ pool.units[u].printed = FailedFiles(pool.units[u].files)
              /\ DOMAIN Val(pool.returned) = {pool.ids[k] : k \in 1..Len(pool.ids)}
              /\ \A u \in 1..Len(pool.units) :
                    Val(pool.returned)[pool.units[u].id] =
                        TbParser_read_events_files(<<>>, pool.units[u].files, 1)
\* parse_ids has returned although a file of job 1 could not be read, and
\* job 2 was parsed beside it
C23_Witness ==
    /\ pool.state = "returned"
    /\ Len(pool.units) = 2
    /\ \E u \in 1..2 : FailedFiles(pool.units[u].files) > 0
                       /\ Val(pool.returned)[pool.units[3 - u].id] # <<>>

\* ------------------------------------------------------------------- C24
\* C24: when update_groups fails while it computes the results of one group,
\* every group's results are what they were before the call or what this
\* update validly computed for it; no result stored before is removed or
\* replaced by a smaller one, and the cache holds what this call parsed.
FailsInGroups ==
    /\ last'.op = "update_groups"
    /\ calls' = calls + 1
    /\ last'.exc.type # ""
    /\ last'.returned # None
ComputedNow(g) ==
    Group_update_results(Group_update_all_data(g, events'), last'.metrics, <<>>).results
OtherResultsSurvive ==
    FailsInGroups =>
        /\ Len(groups') = Len(groups)
        /\ \A i \in 1..Len(groups) :
              /\ groups'[i].results \in {groups[i].results, ComputedNow(groups[i])}
              /\ \A n \in DOMAIN groups[i].results :
                    /\ n \in DOMAIN groups'[i].results
                    /\ ~SpecLess(groups'[i].results[n], groups[i].results[n])
        /\ \A id \in DOMAIN Val(last'.returned) :
              id \in DOMAIN events' /\ events'[id] = Val(last'.returned)[id]
C24_FailureSparesOtherGroups == [][OtherResultsSurvive]_vars
\* update_groups failed on the second group, whose jobs all lack the required
\* key, after it had computed a result for the first group
C24_Witness ==
    /\ last.op = "update_groups"
    /\ last.exc.type = "AssertionError"
    /\ last.returned # None
    /\ Len(groups) = 2
    /\ ~groups[1].sep /\ groups[1].results # <<>>
    /\ ~groups[2].sep /\ groups[2].results = <<>>

\* ------------------------------------------------------------------- C25
\* C25: get_group with a name and a job id that match no group returns None
\* without raising and leaves groups and cache as they were; when a group
\* matches, what is returned is a copy of its own: changing it afterwards
\* leaves the manager's group as it was.
IsMatch(g, name, job_id) ==
    name = Some(g.name) \/ \E k \in 1..Len(g.ids) : job_id = Some(g.ids[k])
LookedUp == last.op = "get_group" /\ last.exc.type = ""
NoMatch == \A i \in 1..Len(groups) : ~IsMatch(groups[i], last.arg.name, last.arg.job_id)
C25_LookupReturnsCopyOrNone ==
    /\ (last.op = "get_group" /\ (last.arg.name # None \/ last.arg.job_id # None)) =>
          last.exc.type = ""
    /\ LookedUp => groups = last.pre
    /\ (LookedUp /\ NoMatch) => last.returned = None
    /\ (LookedUp /\ ~NoMatch) =>
          /\ last.returned # None
          /\ \E i \in 1..Len(groups) :
                /\ IsMatch(groups[i], last.arg.name, last.arg.job_id)
                /\ Val(last.returned).obj = groups[i]
    /\ last.op = "mutate_returned" =>
          /\ groups = last.pre
          /\ \E i \in 1..Len(groups) :
                /\ IsMatch(groups[i], last.arg.name, last.arg.job_id)
                /\ Val(last.returned).obj # groups[i]
\* a returned group was changed by the caller
C25_Witness ==
    /\ last.op = "mutate_returned"
    /\ Len(groups) = 2
    /\ Val(last.returned).obj.params # last.pre[1].params
    /\ Val(last.returned).obj.name = last.pre[1].name

\* ------------------------------------------------------------------- C26
\* C26: filter_groups on the manager that copy() returned leaves this
\* manager's group list as it was (the same groups in the same order, each
\* with its ids, params and results), while filter_groups on the manager
\* itself replaces its group list by the retained groups.
FilteredCopy == last.op = "filter_copy"
FilteredSelf == last.op = "filter_groups"
Retained == GroupManager_filter_groups(last.pre, last.arg.filters, last.arg.keep_separators)
C26_FilterOnCopySparesOriginal ==
    /\ FilteredCopy => groups = last.pre /\ Val(last.returned).obj.groups = Retained
    /\ FilteredSelf => groups = Retained
\* the copy lost a group that this manager still holds
C26_Witness ==
    /\ FilteredCopy
    /\ Len(groups) = 2
    /\ Len(Val(last.returned).obj.groups) < 2

\* ------------------------------------------------------------------- C27
\* C27: in one update_groups call every job id is handed to
\* TbParser.parse_ids at most once, also when it occurs in several groups or
\* several times in one group's ids (stated for the calls in which the
\* reader found every id and returned).
NoRepetition(s) == \A i, j \in 1..Len(s) : s[i] = s[j] => i = j
C27_EachJobParsedOnce == (UpdatedGroups /\ last.returned # None) => NoRepetition(last.parsed)

\* ------------------------------------------------------------------- C28
\* C28: the comparison of Results is a consistent total order: a sentinel is
\* less than every number, two sentinels are equal and neither is less than
\* the other, numbers compare by value; a < b and a == b never both hold and
\* a < a never holds.
Compared == last.op = "compare"
IsSentinel(r) == r.kind = "str"
ValueLess(a, b) == a.num * b.den < b.num * a.den
ValueEqual(a, b) == a.num * b.den = b.num * a.den
C28_ConsistentTotalOrder ==
    Compared =>
        LET a == last.arg.a
            b == last.arg.b
            r == Val(last.returned)
        IN /\ (IsSentinel(a) /\ ~IsSentinel(b)) => (r.lt /\ ~r.gt /\ ~r.eq)
           /\ (IsSentinel(a) /\ IsSentinel(b)) => (r.eq /\ ~r.lt /\ ~r.gt)
           /\ (~IsSentinel(a) /\ ~IsSentinel(b)) =>
                 /\ r.lt = ValueLess(a, b)
                 /\ r.eq = ValueEqual(a, b)
           /\ ~(r.lt /\ r.eq)
           /\ ~r.self_lt

\* ------------------------------------------------------------------- C29
\* C29: evaluating metrics with last_k, first_k or no truncation on a group
\* never changes a stored series: the data of the group and the cache of the
\* manager hold the same samples before and after, whether the evaluation
\* returns or raises.
Evaluated == last.op = "evaluate_cached"
C29_EvaluationLeavesSeries ==
    Evaluated =>
        /\ events = last.pre.events
        /\ \A i \in 1..Len(groups) : groups[i].data = last.pre.groups[i].data
\* a last_k metric was evaluated after a first_k metric on a job with two samples
C29_Witness ==
    /\ Evaluated
    /\ Len(last.metrics) = 2
    /\ last.metrics[1].first_k # None
    /\ last.metrics[2].last_k # None
    /\ \E id \in DOMAIN events : Len(events[id].acc) = 2
    /\ groups[1].results # <<>>

\* ------------------------------------------------------------------- C30
\* C30: a ReachedJobStateCallback with target T keeps polling while the job
\* is observed in a state that is not terminated and precedes T; it calls
\* on_reach_target_state exactly when the job is first observed in T, calls
\* on_reach_other_state only for a terminated state other than T or a state
\* from which T can no longer be reached, and calls at most one of the two
\* handlers, at most once, before it stops.
Polled == callback.seen # <<>>
LastSeen == callback.seen[Len(callback.seen)]
Precedes(s, t) == ~JobState_is_terminated(s) /\ JobState_value(s) < JobState_value(t)
StillReachable(s, t) == s = t \/ Precedes(s, t)
SeenTarget == \E k \in 1..Len(callback.seen) : callback.seen[k] = callback.target
HandlerCalls == callback.on_target + Len(callback.on_other)
C30_WaitsForTarget ==
    Polled =>
        /\ Precedes(LastSeen, callback.target) =>
              (callback.keep_running /\ HandlerCalls = 0)
        /\ callback.on_target = (IF SeenTarget THEN 1 ELSE 0)
        /\ \A k \in 1..Len(callback.on_other) :
              /\ callback.on_other[k] # callback.target
              /\ JobState_is_terminated(callback.on_other[k])
                 \/ ~StillReachable(callback.on_other[k], callback.target)
        /\ HandlerCalls <= 1
        /\ HandlerCalls = 1 => ~callback.keep_running
====
